---- MODULE Spec2Model ----
(***************************************************************************)
(* A model of fst-claude-proxy: the OAuth credential cache, the agent      *)
(* registry routing resolver and the /v1/messages handler of               *)
(* claude_proxy/hooks/callbacks.py, and the credential cache of            *)
(* fst_claude_proxy/hooks/oauth_hook.py.                                   *)
(*                                                                         *)
(* Python's None is the string "None".  All handlers are coroutines of one *)
(* event loop and the credential functions contain no await, so one call   *)
(* of load_oauth_credentials or invalidate_credential_cache is one step;   *)
(* the clock and the credential documents (owned by an external rotation   *)
(* process) change between steps.                                          *)
(***************************************************************************)
EXTENDS Integers, Sequences, FiniteSets, TLC

None == "None"

\* ------------------------------------------------------------------ bounds

\* time.time() at the first step: epoch seconds, far above the TTL
StartTime == 1000
\* seconds the clock advances in one Tick
TickStep == 30
\* number of Ticks a run may take
MaxTicks == 2

\* --------------------------------------------------------- program constants

\* callbacks.py: _OAUTH_CACHE_TTL
OAUTH_CACHE_TTL == 60
\* oauth_hook.py: _CACHE_TTL_SECONDS
CACHE_TTL_SECONDS == 60

\* ------------------------------------------------------ backing documents

\* The credentials document (CLAUDE_CREDENTIALS_PATH): absent, not loadable
\* (unreadable or not JSON: open/json.load raises), or a JSON object with an
\* optional "claudeAiOauth" object and optional top-level fields.
OAuthObj(tok, uid, acc) == [accessToken |-> tok, userId |-> uid, accountUuid |-> acc]

CredsDoc(st, has, oauth, top) ==
    [status |-> st, hasOauth |-> has, claudeAiOauth |-> oauth, top |-> top]

NoFields == OAuthObj(None, None, None)

CredsMissing == CredsDoc("missing", FALSE, NoFields, NoFields)
CredsMalformed == CredsDoc("malformed", FALSE, NoFields, NoFields)
CredsA == CredsDoc("ok", TRUE, OAuthObj("tokA", None, None), NoFields)
CredsB == CredsDoc("ok", TRUE, OAuthObj("tokB", "userB", "acctB"), NoFields)
CredsNoToken == CredsDoc("ok", TRUE, NoFields, NoFields)
CredsFlat == CredsDoc("ok", FALSE, NoFields, OAuthObj("tokF", "userF", None))

CredsStates == {CredsMissing, CredsMalformed, CredsA, CredsB, CredsNoToken, CredsFlat}

\* The identity document (~/.claude.json): userID and oauthAccount.accountUuid.
ClaudeJson(st, uid, acc) == [status |-> st, userID |-> uid, accountUuid |-> acc]

ClaudeJsonStates ==
    { ClaudeJson("missing", None, None),
      ClaudeJson("malformed", None, None),
      ClaudeJson("ok", "userJ", "acctJ"),
      ClaudeJson("ok", None, "acctJ") }

\* ------------------------------------------------------------------- state

VARIABLES
    impl,                       \* which credential-cache module the run exercises
    now,                        \* time.time()
    credsFile,                  \* the credentials document
    claudeJson,                 \* the identity document
    OAUTH_TOKEN_CACHE,          \* callbacks.py module globals
    OAUTH_USER_ID_CACHE,
    OAUTH_ACCOUNT_UUID_CACHE,
    OAUTH_CACHE_TIME,
    lastCall,                   \* history: the latest call on the cache
    everLoaded,                 \* history: some load has stored a credential
    cacheFrom,                  \* history: whether the cached user id and account
                                \* id were written by the load that wrote the token
    HOOK_OAUTH_TOKEN,           \* oauth_hook.py module globals
    HOOK_LAST_LOAD_TIME

credVars ==
    << now, credsFile, claudeJson, OAUTH_TOKEN_CACHE, OAUTH_USER_ID_CACHE,
       OAUTH_ACCOUNT_UUID_CACHE, OAUTH_CACHE_TIME, lastCall, everLoaded,
       cacheFrom >>

hookVars == << HOOK_OAUTH_TOKEN, HOOK_LAST_LOAD_TIME >>

VARIABLES
    routeIn,                    \* determine_routing: the arguments of the latest call
    routeOut                    \* determine_routing: what it returned

routeVars == << routeIn, routeOut >>

VARIABLES
    proxy_agent_registry,       \* proxy_callbacks.agent_registry
    ZAI_API_KEY,                \* os.environ["ZAI_API_KEY"], None when unset
    pc,                         \* where the request coroutine stands
    request,                    \* request_body and request_headers of the call
    locals,                     \* body, headers, oauth_token once built
    response                    \* the response returned and the upstream call made

processVars == << proxy_agent_registry, ZAI_API_KEY >>

handlerVars == << pc, request, locals, response >>

VARIABLES
    hashIn,                     \* the fingerprint functions: the text or segments given
    hashOut                     \* what each of them returned

fingerprintVars == << hashIn, hashOut >>

VARIABLES
    registryFile,               \* the registry backing store (agent_hashes.json)
    AGENT_REGISTRY,             \* agent_hashes._AGENT_REGISTRY
    REGISTRY_LOADED,            \* agent_hashes._REGISTRY_LOADED
    regCall,                    \* the latest call on the registry and its outcome
    lastReload,                 \* the mapping the latest reload_registry() read
    hookIn,                     \* AgentRoutingCallback: data and call_type given
    hookOut                     \* AgentRoutingCallback: what the hook returned

registryVars == << registryFile, AGENT_REGISTRY, REGISTRY_LOADED, regCall, lastReload >>

routingHookVars == << hookIn, hookOut >>

\* what neither the credential functions nor the request handler touch
VARIABLES
    preCallIn,                  \* ClaudeProxyCallbacks.async_pre_call_hook: data given
    preCallOut,                 \* ... and the data it returned
    upstream,                   \* stream_response: what the upstream will do
    relay,                      \* stream_response: where the generator stands
    delivered,                  \* stream_response: the items yielded so far
    post,                       \* the non-streaming relay: POSTs made, reply returned
    tokenFile,                  \* oauth_hook: the credentials document with expiresAt
    tokenCache,                 \* oauth_hook: _OAUTH_TOKEN (with expiresAt), _LAST_LOAD_TIME
    accessOut,                  \* oauth_hook.get_access_token: the latest call
    injectIn,                   \* OAuthInjectionCallback: data and call_type given
    injectOut                   \* ... and the data it returned

preCallVars == << preCallIn, preCallOut >>

streamVars == << upstream, relay, delivered >>

postVars == << post >>

tokenVars == << tokenFile, tokenCache, accessOut, injectIn, injectOut >>

laterVars == << preCallVars, streamVars, postVars, tokenVars >>

sideVars == << fingerprintVars, registryVars, routingHookVars, laterVars >>

\* everything the credential functions and their environment leave alone
restVars == << routeVars, processVars, handlerVars, sideVars >>

vars == << impl, credVars, hookVars, restVars >>

Cred(t, u, a) == [token |-> t, user_id |-> u, account_uuid |-> a]

NoCred == Cred(None, None, None)

\* Python's `x or y` on optional strings
PyOr(x, y) == IF x # None THEN x ELSE y

\* ------------------------------------------- callbacks.load_oauth_credentials

\* creds.get("claudeAiOauth", creds)
OAuthData(cf) == IF cf.hasOauth THEN cf.claudeAiOauth ELSE cf.top

\* the pass over the documents without the placeholder step
LoadOutcomeNoPlaceholders(cf, cj) ==
    LET token == IF cf.status = "ok" THEN OAuthData(cf).accessToken ELSE None
        user1 == IF cj.status = "ok" THEN cj.userID ELSE None
        acct1 == IF cj.status = "ok" THEN cj.accountUuid ELSE None
        fallback == user1 = None /\ cf.status # "missing"
        user2 == IF fallback
                 THEN PyOr(OAuthData(cf).userId, cf.top.userId)
                 ELSE user1
        acct2 == IF fallback
                 THEN PyOr(acct1, PyOr(OAuthData(cf).accountUuid, cf.top.accountUuid))
                 ELSE acct1
    IN  IF cf.status = "malformed" \/ cj.status = "malformed"
        THEN [raised |-> TRUE, cred |-> NoCred]
        ELSE [raised |-> FALSE, cred |-> Cred(token, user2, acct2)]

\* The body of the try block: what one pass over the two documents yields.
\* raised: an exception reached `except Exception`.
LoadOutcome(cf, cj) ==
    LET token == IF cf.status = "ok" THEN OAuthData(cf).accessToken ELSE None
        user1 == IF cj.status = "ok" THEN cj.userID ELSE None
        acct1 == IF cj.status = "ok" THEN cj.accountUuid ELSE None
        fallback == user1 = None /\ cf.status # "missing"
        user2 == IF fallback
                 THEN PyOr(OAuthData(cf).userId, cf.top.userId)
                 ELSE user1
        acct2 == IF fallback
                 THEN PyOr(acct1, PyOr(OAuthData(cf).accountUuid, cf.top.accountUuid))
                 ELSE acct1
        user3 == IF user2 = None THEN "anonymous" ELSE user2
        acct3 == IF acct2 = None THEN "default" ELSE acct2
    IN  IF cf.status = "malformed" \/ cj.status = "malformed"
        THEN [raised |-> TRUE, cred |-> NoCred]
        ELSE [raised |-> FALSE, cred |-> Cred(token, user3, acct3)]

\* the cache validity check at the head of load_oauth_credentials
CacheValidLe(force, tok, time, t) ==
    ~force /\ tok # None /\ (t - time) <= OAUTH_CACHE_TTL

CacheValid(force, tok, time, t) ==
    ~force /\ tok # None /\ (t - time) < OAUTH_CACHE_TTL

\* the four assignments under `if token:`
StoredCacheTokenOnly(old, cred, t) ==
    [old EXCEPT !.token = cred.token, !.time = t,
                !.from = [user_id |-> FALSE, account_uuid |-> FALSE]]

StoredCache(old, cred, t) ==
    [ token |-> cred.token, user_id |-> cred.user_id,
      account_uuid |-> cred.account_uuid, time |-> t,
      from |-> [user_id |-> TRUE, account_uuid |-> TRUE] ]

\* invalidate_credential_cache: the two assignments
InvalidatedCacheNoGlobal(old) == old

InvalidatedCache(old) == [old EXCEPT !.token = None, !.time = 0]

CacheRecord ==
    [ token |-> OAUTH_TOKEN_CACHE, user_id |-> OAUTH_USER_ID_CACHE,
      account_uuid |-> OAUTH_ACCOUNT_UUID_CACHE, time |-> OAUTH_CACHE_TIME,
      from |-> cacheFrom ]

SetCache(c) ==
    /\ OAUTH_TOKEN_CACHE' = c.token
    /\ OAUTH_USER_ID_CACHE' = c.user_id
    /\ OAUTH_ACCOUNT_UUID_CACHE' = c.account_uuid
    /\ OAUTH_CACHE_TIME' = c.time
    /\ cacheFrom' = c.from

CachedCred == Cred(OAUTH_TOKEN_CACHE, OAUTH_USER_ID_CACHE, OAUTH_ACCOUNT_UUID_CACHE)

\* What one call load_oauth_credentials(force) does to the cache and returns.
\* hit: served from the cache; otherwise one pass over the documents.
LoadCall(force) ==
    LET hit == CacheValid(force, OAUTH_TOKEN_CACHE, OAUTH_CACHE_TIME, now)
        out == LoadOutcome(credsFile, claudeJson)
        store == ~hit /\ ~out.raised /\ out.cred.token # None
    IN  [ hit |-> hit,
          failed |-> ~hit /\ (out.raised \/ out.cred.token = None),
          stored |-> store,
          cache |-> IF store
                    THEN StoredCache(CacheRecord, out.cred, now)
                    ELSE CacheRecord,
          whole |-> hit => (cacheFrom.user_id /\ cacheFrom.account_uuid),
          result |-> IF hit THEN CachedCred
                     ELSE IF out.raised THEN NoCred ELSE out.cred ]

\* load_oauth_credentials(force) had it dropped the cache before a forced read
LoadCallDiscarding(force) ==
    LET c == LoadCall(force)
    IN  IF force /\ ~c.stored
        THEN [c EXCEPT !.cache = InvalidatedCache(CacheRecord)]
        ELSE c

Prev ==
    [ op |-> lastCall.op, force |-> lastCall.force, failed |-> lastCall.failed,
      hadToken |-> lastCall.hadToken, fresh |-> lastCall.fresh ]

\* the call as made: its effect on the cache, and what it returned
CallOutcome(force) == LoadCall(force)

load_oauth_credentials(force) ==
    LET c == CallOutcome(force)
    IN  /\ impl = "callbacks"
        /\ SetCache(c.cache)
        /\ everLoaded' = (everLoaded \/ c.stored)
        /\ lastCall' =
              [ op |-> "get", force |-> force, prev |-> Prev,
                seq |-> 1 - lastCall.seq,
                hadToken |-> OAUTH_TOKEN_CACHE # None,
                fresh |-> (now - OAUTH_CACHE_TIME) < OAUTH_CACHE_TTL,
                everBefore |-> everLoaded,
                reads |-> IF c.hit THEN 0 ELSE 1,
                failed |-> c.failed,
                whole |-> c.whole,
                result |-> c.result ]
        /\ UNCHANGED << impl, now, credsFile, claudeJson, hookVars, restVars >>

invalidate_credential_cache ==
    /\ impl = "callbacks"
    /\ SetCache(InvalidatedCache(CacheRecord))
    /\ lastCall' =
          [ op |-> "invalidate", force |-> FALSE, prev |-> Prev,
            seq |-> 1 - lastCall.seq,
            hadToken |-> OAUTH_TOKEN_CACHE # None,
            fresh |-> (now - OAUTH_CACHE_TIME) < OAUTH_CACHE_TTL,
            everBefore |-> everLoaded,
            reads |-> 0,
            failed |-> FALSE,
            whole |-> TRUE,
            result |-> NoCred ]
    /\ UNCHANGED << impl, now, credsFile, claudeJson, everLoaded, hookVars, restVars >>

\* -------------------------------------------- oauth_hook.load_oauth_credentials

\* The cached "claudeAiOauth" dictionary; isNone: the global holds None.
HookToken(isNone, tok) == [isNone |-> isNone, accessToken |-> tok]

HookNone == HookToken(TRUE, None)

\* data.get("claudeAiOauth")
HookRead(cf) ==
    IF cf.hasOauth THEN HookToken(FALSE, cf.claudeAiOauth.accessToken) ELSE HookNone

HookCacheValid(force, tok, time, t) ==
    ~force /\ ~tok.isNone /\ (t - time) < CACHE_TTL_SECONDS

\* One call: a hit, or one open of the credentials document; a missing or
\* unloadable document returns None and leaves both globals as they were.
HookLoadCall(force) ==
    LET hit == HookCacheValid(force, HOOK_OAUTH_TOKEN, HOOK_LAST_LOAD_TIME, now)
        opened == ~hit /\ credsFile.status = "ok"
        read == HookRead(credsFile)
    IN  [ hit |-> hit,
          failed |-> ~hit /\ (~opened \/ read.isNone),
          token |-> IF opened THEN read ELSE HOOK_OAUTH_TOKEN,
          time |-> IF opened THEN now ELSE HOOK_LAST_LOAD_TIME,
          result |-> IF hit THEN HOOK_OAUTH_TOKEN
                     ELSE IF opened THEN read ELSE HookNone ]

hook_load_oauth_credentials(force) ==
    LET c == HookLoadCall(force)
    IN  /\ impl = "oauth_hook"
        /\ HOOK_OAUTH_TOKEN' = c.token
        /\ HOOK_LAST_LOAD_TIME' = c.time
        /\ everLoaded' = (everLoaded \/ (~c.hit /\ ~c.failed))
        /\ lastCall' =
              [ op |-> "get", force |-> force, prev |-> Prev,
                seq |-> 1 - lastCall.seq,
                hadToken |-> ~HOOK_OAUTH_TOKEN.isNone,
                fresh |-> (now - HOOK_LAST_LOAD_TIME) < CACHE_TTL_SECONDS,
                everBefore |-> everLoaded,
                reads |-> IF c.hit THEN 0 ELSE 1,
                failed |-> c.failed,
                whole |-> TRUE,
                result |-> Cred(c.result.accessToken, None, None) ]
        /\ UNCHANGED << impl, now, credsFile, claudeJson, OAUTH_TOKEN_CACHE,
                        OAUTH_USER_ID_CACHE, OAUTH_ACCOUNT_UUID_CACHE,
                        OAUTH_CACHE_TIME, cacheFrom, restVars >>

hook_invalidate_credential_cache ==
    /\ impl = "oauth_hook"
    /\ HOOK_OAUTH_TOKEN' = HookNone
    /\ HOOK_LAST_LOAD_TIME' = 0
    /\ lastCall' =
          [ op |-> "invalidate", force |-> FALSE, prev |-> Prev,
            seq |-> 1 - lastCall.seq,
            hadToken |-> ~HOOK_OAUTH_TOKEN.isNone,
            fresh |-> (now - HOOK_LAST_LOAD_TIME) < CACHE_TTL_SECONDS,
            everBefore |-> everLoaded,
            reads |-> 0,
            failed |-> FALSE,
            whole |-> TRUE,
            result |-> NoCred ]
    /\ UNCHANGED << impl, now, credsFile, claudeJson, OAUTH_TOKEN_CACHE,
                    OAUTH_USER_ID_CACHE, OAUTH_ACCOUNT_UUID_CACHE,
                    OAUTH_CACHE_TIME, everLoaded, cacheFrom, restVars >>

\* ------------------------------------------------- callbacks.py: routing
\* Text is a sequence of atoms; the atom "Notes:" is the only one that holds
\* the marker, and the atom "zai-" the only one that holds the prefix.

NotesMarker == "Notes:"

ZaiPrefix == "zai-"

EmptyText == << >>

\* a "system" value or a message "content" value: absent, a string, a list
\* of content blocks, or another JSON value
Absent == [kind |-> "absent"]

Null == [kind |-> "null"]

Str(t) == [kind |-> "str", text |-> t]

Blocks(bs) == [kind |-> "list", blocks |-> bs]

TextBlock(t) == [type |-> "text", text |-> t]

ImageBlock == [type |-> "image", text |-> EmptyText]

\* Python truthiness of such a value
Truthy(v) ==
    CASE v.kind = "str" -> v.text # EmptyText
      [] v.kind = "list" -> v.blocks # << >>
      [] OTHER -> FALSE

\* " ".join(block.get("text", "") for block in blocks if type == "text")
RECURSIVE JoinTexts(_)
JoinTexts(ts) ==
    IF ts = << >> THEN EmptyText
    ELSE IF Len(ts) = 1 THEN ts[1]
    ELSE ts[1] \o << " " >> \o JoinTexts(Tail(ts))

TextOfBlocks(bs) ==
    LET texts == SelectSeq(bs, LAMBDA b : b.type = "text")
    IN  JoinTexts([i \in 1..Len(texts) |-> texts[i].text])

\* s.split("Notes:")[0]: the text before the first marker
RECURSIVE BeforeMarker(_)
BeforeMarker(t) ==
    IF t = << >> \/ t[1] = NotesMarker THEN << >>
    ELSE << t[1] >> \o BeforeMarker(Tail(t))

\* hashlib.sha256(text.encode()).hexdigest()[:16]: one digest per text
Sha256Hex16(t) == [sha256 |-> t]

compute_agent_hash(system_prompt) ==
    LET text == CASE system_prompt.kind = "list" -> TextOfBlocks(system_prompt.blocks)
                  [] system_prompt.kind = "str" -> system_prompt.text
                  [] OTHER -> EmptyText
    IN  Sha256Hex16(BeforeMarker(text))

\* the first message of role "system" whose content is a string or a list
RECURSIVE extract_system_prompt(_)
extract_system_prompt(messages) ==
    IF messages = << >> THEN Absent
    ELSE LET msg == messages[1]
         IN  IF msg.role = "system" /\ msg.content.kind = "str"
                THEN msg.content
             ELSE IF msg.role = "system" /\ msg.content.kind = "list"
                THEN Str(TextOfBlocks(msg.content.blocks))
             ELSE extract_system_prompt(Tail(messages))

Haiku == << "haiku" >>

Sonnet == << "son", "net" >>

Opus == << "opus" >>

ZAI_MODEL_MAP ==
    ((<< ZaiPrefix >> \o Haiku) :> "anthropic/claude-3-5-haiku-20241022")
    @@ ((<< ZaiPrefix >> \o Sonnet) :> "anthropic/claude-sonnet-4-20250514")
    @@ ((<< ZaiPrefix >> \o Opus) :> "anthropic/claude-opus-4-5-20251101")

MODEL_ALIAS_MAP ==
    (Haiku :> "claude-3-5-haiku-20241022")
    @@ (Sonnet :> "claude-sonnet-4-20250514")
    @@ (Opus :> "claude-opus-4-5-20251101")

ZaiBaseIsPrimary == "https://api.anthropic.com/v1/messages"

ZAI_API_BASE == "https://api.z.ai/api/anthropic"

default_api_base == "https://api.anthropic.com/v1/messages"

DefaultModel == "claude-sonnet-4-20250514"

\* dict.get(key, default)
DictGet(d, k, default) == IF k \in DOMAIN d THEN d[k] ELSE default

\* target_alias.startswith("zai-")
StartsWithZai(alias) == alias # << >> /\ alias[1] = ZaiPrefix

\* target_alias.replace("zai-", ""): every occurrence goes
ReplaceZai(alias) == SelectSeq(alias, LAMBDA x : x # ZaiPrefix)

Decision(base, model, key) == [api_base |-> base, model |-> model, api_key |-> key]

ResolveAliasIgnoringRegistry(alias, original_model) == original_model

\* MODEL_ALIAS_MAP.get(alias, original_model)
ResolveAlias(alias, original_model) == DictGet(MODEL_ALIAS_MAP, alias, original_model)

OriginalModelLiteral(body) == DefaultModel

\* body.get("model", "claude-sonnet-4-20250514")
OriginalModel(body) == IF body.model = None THEN DefaultModel ELSE body.model

\* the prompt the lookup is made on: "system", else the messages
SystemPromptOf(body) ==
    IF Truthy(body.system) THEN body.system
    ELSE extract_system_prompt(body.messages)

ZaiFallbackAlternateBase(target_alias, original_model) ==
    Decision(ZAI_API_BASE, ResolveAlias(ReplaceZai(target_alias), original_model), None)

\* the branch taken when ZAI_API_KEY is unset or empty
ZaiFallback(target_alias, original_model) ==
    Decision(default_api_base, ResolveAlias(ReplaceZai(target_alias), original_model), None)

determine_routing(body, agent_registry, zai_api_key) ==
    LET original_model == OriginalModel(body)
        system_prompt == SystemPromptOf(body)
        default == Decision(default_api_base, original_model, None)
    IN  IF ~Truthy(system_prompt) \/ DOMAIN agent_registry = {} THEN default
        ELSE LET agent_hash == compute_agent_hash(system_prompt)
             IN  IF agent_hash \notin DOMAIN agent_registry THEN default
                 ELSE LET target_alias == agent_registry[agent_hash]
                      IN  IF StartsWithZai(target_alias)
                          THEN IF zai_api_key \in {None, ""}
                               THEN ZaiFallback(target_alias, original_model)
                               ELSE IF target_alias \notin DOMAIN ZAI_MODEL_MAP
                                    THEN default
                                    ELSE Decision(ZAI_API_BASE,
                                                  ZAI_MODEL_MAP[target_alias],
                                                  zai_api_key)
                          ELSE Decision(default_api_base,
                                        ResolveAlias(target_alias, original_model),
                                        None)

\* ------------------------------------------------------------- environment

Tick ==
    /\ now + TickStep <= StartTime + MaxTicks * TickStep
    /\ now' = now + TickStep
    /\ UNCHANGED << impl, credsFile, claudeJson, OAUTH_TOKEN_CACHE,
                    OAUTH_USER_ID_CACHE, OAUTH_ACCOUNT_UUID_CACHE, OAUTH_CACHE_TIME,
                    lastCall, everLoaded, cacheFrom, hookVars, restVars >>

\* the external rotation process rewrites the credentials document
RotateCredentials ==
    /\ \E cf \in CredsStates : credsFile' = cf
    /\ UNCHANGED << impl, now, claudeJson, OAUTH_TOKEN_CACHE,
                    OAUTH_USER_ID_CACHE, OAUTH_ACCOUNT_UUID_CACHE, OAUTH_CACHE_TIME,
                    lastCall, everLoaded, cacheFrom, hookVars, restVars >>

RotateClaudeJson ==
    /\ \E cj \in ClaudeJsonStates : claudeJson' = cj
    /\ UNCHANGED << impl, now, credsFile, OAUTH_TOKEN_CACHE,
                    OAUTH_USER_ID_CACHE, OAUTH_ACCOUNT_UUID_CACHE, OAUTH_CACHE_TIME,
                    lastCall, everLoaded, cacheFrom, hookVars, restVars >>

\* ------------------------------------------ utils.py: compute_agent_hash

Newline == "\n"

\* the characters str.strip() removes
Whitespace == { " ", Newline }

\* ["\n\nNotes:", "\nNotes:", "Notes:"]
Separators ==
    << << Newline, Newline, NotesMarker >>, << Newline, NotesMarker >>,
       << NotesMarker >> >>

\* the positions at which sep occurs in text
Occurrences(text, sep) ==
    { i \in 1..(Len(text) + 1 - Len(sep)) : SubSeq(text, i, i + Len(sep) - 1) = sep }

\* `separator in prompt`
Contains(text, sep) == Occurrences(text, sep) # {}

\* prompt.split(separator)[0]
SplitFirst(text, sep) ==
    LET first == CHOOSE i \in Occurrences(text, sep) :
                    \A j \in Occurrences(text, sep) : i <= j
    IN  SubSeq(text, 1, first - 1)

\* the loop over the separators: the first one present is split on, once
RECURSIVE StripNotesFrom(_, _)
StripNotesFrom(prompt, k) ==
    IF k > Len(Separators) THEN prompt
    ELSE IF Contains(prompt, Separators[k]) THEN SplitFirst(prompt, Separators[k])
    ELSE StripNotesFrom(prompt, k + 1)

\* str.strip()
RECURSIVE Strip(_)
Strip(text) ==
    IF text = << >> THEN text
    ELSE IF text[1] \in Whitespace THEN Strip(Tail(text))
    ELSE IF text[Len(text)] \in Whitespace THEN Strip(SubSeq(text, 1, Len(text) - 1))
    ELSE text

utils_compute_agent_hash(prompt, strip_notes) ==
    Sha256Hex16(Strip(IF strip_notes THEN StripNotesFrom(prompt, 1) ELSE prompt))

\* ------------------------------------- callbacks._handle_messages_request
\* Header values and URLs are sequences of atoms, so that "Bearer " + token
\* and api_base + "/v1/messages" can be formed.

Present(v) == [kind |-> "value", value |-> v]

Bearer(token) == << "Bearer ", token >>

OAuthBeta == "oauth-2025-04-20"

\* atoms of a beta header value that hold the text "oauth-2025-04-20"
OAuthBearingAtoms == { OAuthBeta, "x-oauth-2025-04-20-preview" }

SESSION_ID == "session8"

CLAUDE_CODE_SYSTEM_PREFIX == "You are Claude Code, Anthropic's official CLI for Claude."

claude_code_block ==
    [ type |-> "text", text |-> << CLAUDE_CODE_SYSTEM_PREFIX >>,
      cache_control |-> "ephemeral" ]

\* d[k] = v on a dictionary
Put(d, k, v) == [ x \in DOMAIN d \cup {k} |-> IF x = k THEN v ELSE d[x] ]

EmptyDict == [ x \in {} |-> << >> ]

forward_headers_and_api_key ==
    { "user-agent", "x-app", "anthropic-beta",
      "anthropic-dangerous-direct-browser-access", "anthropic-version",
      "x-stainless-arch", "x-stainless-lang", "x-stainless-os",
      "x-stainless-package-version", "x-stainless-retry-count",
      "x-stainless-runtime", "x-stainless-runtime-version",
      "x-stainless-timeout", "x-api-key" }

forward_headers ==
    { "user-agent", "x-app", "anthropic-beta",
      "anthropic-dangerous-direct-browser-access", "anthropic-version",
      "x-stainless-arch", "x-stainless-lang", "x-stainless-os",
      "x-stainless-package-version", "x-stainless-retry-count",
      "x-stainless-runtime", "x-stainless-runtime-version",
      "x-stainless-timeout" }

TokenNeverMissing(oauth_token) == FALSE

\* `if not oauth_token`
TokenMissing(oauth_token) == oauth_token \in {None, ""}

\* the anthropic-beta value after the oauth-2025-04-20 check
BetaHeader(existing_beta) ==
    IF \E i \in 1..Len(existing_beta) : existing_beta[i] \in OAuthBearingAtoms
    THEN existing_beta
    ELSE IF existing_beta # << >>
         THEN << OAuthBeta, "," >> \o existing_beta
         ELSE << OAuthBeta >>

\* the headers of the primary (OAuth) path
OAuthHeaders(request_headers, oauth_token) ==
    LET forwarded == [ h \in forward_headers \cap DOMAIN request_headers
                         |-> request_headers[h] ]
        h1 == Put(forwarded, "authorization", Bearer(oauth_token))
        h2 == Put(h1, "anthropic-version",
                  DictGet(request_headers, "anthropic-version", << "2023-06-01" >>))
        h3 == Put(h2, "content-type", << "application/json" >>)
        h4 == Put(h3, "accept", << "application/json" >>)
    IN  Put(h4, "anthropic-beta", BetaHeader(DictGet(h4, "anthropic-beta", << >>)))

ZaiHeadersWithBearer(zai_api_key) ==
    ("x-api-key" :> << zai_api_key >>)
    @@ ("anthropic-version" :> << "2023-06-01" >>)
    @@ ("Content-Type" :> << "application/json" >>)
    @@ ("authorization" :> << "Bearer ", zai_api_key >>)

\* the headers of the alternate (Z-AI) path
ZaiHeaders(zai_api_key) ==
    ("x-api-key" :> << zai_api_key >>)
    @@ ("anthropic-version" :> << "2023-06-01" >>)
    @@ ("Content-Type" :> << "application/json" >>)

\* text.startswith(CLAUDE_CODE_SYSTEM_PREFIX)
StartsWithPrefix(text) == text # << >> /\ text[1] = CLAUDE_CODE_SYSTEM_PREFIX

NeverNeedsInjection(system_prompt) == FALSE

needs_injection(system_prompt) ==
    CASE ~Truthy(system_prompt) -> TRUE
      [] system_prompt.kind = "list" -> ~StartsWithPrefix(system_prompt.blocks[1].text)
      [] system_prompt.kind = "str" -> ~StartsWithPrefix(system_prompt.text)
      [] OTHER -> FALSE

\* body["system"] after the prefix injection
InjectedSystem(system_prompt) ==
    IF ~needs_injection(system_prompt) THEN system_prompt
    ELSE CASE ~Truthy(system_prompt) -> Blocks(<< claude_code_block >>)
           [] system_prompt.kind = "list" ->
                Blocks(<< claude_code_block >> \o system_prompt.blocks)
           [] OTHER ->
                Blocks(<< claude_code_block, TextBlock(system_prompt.text) >>)

\* system, tools, temperature and the metadata dictionary, before user_id
NormalizedBody(body) ==
    [ body EXCEPT
        !.system = InjectedSystem(body.system),
        !.tools = IF body.tools = Absent THEN Present(<< >>) ELSE body.tools,
        !.temperature = Absent,
        !.metadata = IF body.metadata = Absent
                     THEN [kind |-> "dict", user_id |-> Absent]
                     ELSE body.metadata ]

\* f"user_{user_id}_account_{account_uuid}_session_{_SESSION_ID}"
MetadataUserId(user_id, account_uuid) ==
    << "user_", PyOr(user_id, "anonymous"), "_account_",
       PyOr(account_uuid, "default"), "_session_", SESSION_ID >>

JSONResponse(status, type) ==
    [ status |-> status, type |-> type, upstream |-> Absent ]

\* the one POST the handler issues; its reply is relayed to the caller
UpstreamCall(api_url, headers, body) ==
    [ status |-> 0, type |-> "relay",
      upstream |-> [ kind |-> "post", url |-> api_url, headers |-> headers,
                     body |-> body ] ]

NoRequest == [ request_body |-> Absent, request_headers |-> EmptyDict ]

NoLocals ==
    [ body |-> Absent, headers |-> EmptyDict, api_url |-> << >>, oauth_token |-> None ]

NoResponse == JSONResponse(0, "none")

HandlerIdle ==
    /\ pc = "idle"
    /\ request = NoRequest
    /\ locals = NoLocals
    /\ response = NoResponse

\* ------------------------------------------------------ routing: inputs

PromptA == << "a" >>

PromptANotes == << "a", NotesMarker, "b" >>

PromptB == << "b" >>

PromptASpace == << "a", " " >>

SystemValues ==
    { Absent, Str(EmptyText), Str(PromptA), Str(PromptANotes), Str(PromptB),
      Str(PromptASpace), Blocks(<< >>), Blocks(<< ImageBlock >>),
      Blocks(<< TextBlock(PromptA) >>),
      Blocks(<< TextBlock(PromptA), ImageBlock, TextBlock(PromptB) >>) }

Message(role, content) == [role |-> role, content |-> content]

MessageLists ==
    { << >>,
      << Message("user", Str(PromptA)) >>,
      << Message("system", Str(PromptA)) >>,
      << Message("user", Str(PromptB)), Message("system", Blocks(<< TextBlock(PromptB) >>)) >>,
      << Message("system", Null), Message("system", Str(PromptB)) >>,
      << Message("system", Blocks(<< ImageBlock >>)), Message("system", Str(PromptA)) >> }

DeclaredModels == { None, "gpt-x", "claude-opus-4-5-20251101" }

Bodies == [ model : DeclaredModels, system : SystemValues, messages : MessageLists ]

Turbo == << "turbo" >>

ZaiInner == << ZaiPrefix, "son", ZaiPrefix, "net" >>

Aliases ==
    { Haiku, Sonnet, Opus, Turbo,
      << ZaiPrefix >> \o Haiku, << ZaiPrefix >> \o Sonnet, << ZaiPrefix >> \o Opus,
      << ZaiPrefix >> \o Turbo, ZaiInner }

EmptyRegistry == [ h \in {} |-> Opus ]

Registries ==
    { EmptyRegistry }
    \cup { Sha256Hex16(PromptA) :> al : al \in Aliases }
    \cup { (Sha256Hex16(PromptA) :> Opus) @@ (Sha256Hex16(PromptB) :> (<< ZaiPrefix >> \o Haiku)),
           (Sha256Hex16(<< "a", " ", "b" >>) :> Haiku),
           (Sha256Hex16(EmptyText) :> Haiku) }

ZaiKeys == { None, "", "zai-key" }

NoRouteIn ==
    [ body |-> [ model |-> None, system |-> Absent, messages |-> << >> ],
      agent_registry |-> EmptyRegistry, ZAI_API_KEY |-> None ]

NoDecision == Decision(None, None, None)

RouteIdle == routeIn = NoRouteIn /\ routeOut = NoDecision

\* ------------------------------------------- the registry backing store
\* A store is missing, unreadable, not parseable, or holds a JSON value: an
\* object (its "mappings" and "agents" members, and its own string entries)
\* or a value that is not an object.

StoreObject(mappings, agents, entries) ==
    [ status |-> "ok", kind |-> "object", mappings |-> mappings,
      agents |-> agents, entries |-> entries ]

StoreNonObject == [ status |-> "ok", kind |-> "list" ]

StoreMissing == [ status |-> "missing" ]

StoreUnreadable == [ status |-> "unreadable" ]

StoreMalformed == [ status |-> "malformed" ]

AgentRecord(hash, model) == [ hash |-> hash, model |-> model ]

HashA == Sha256Hex16(PromptA)

HashB == Sha256Hex16(PromptB)

MapOpus == HashA :> Opus

MapHaiku == (HashA :> Haiku) @@ (HashB :> Sonnet)

StoreMappingsOpus == StoreObject(Present(MapOpus), Absent, EmptyRegistry)

\* both members present: "mappings" is looked at first
StoreMappingsHaiku ==
    StoreObject(Present(MapHaiku), Present(<< AgentRecord(HashA, Present(Opus)) >>),
                EmptyRegistry)

StoreAgents ==
    StoreObject(Absent,
                Present(<< AgentRecord(HashA, Present(Opus)), AgentRecord(HashB, Absent) >>),
                EmptyRegistry)

StoreBare == StoreObject(Absent, Absent, MapOpus)

RegistryStores ==
    { StoreMissing, StoreUnreadable, StoreMalformed, StoreNonObject,
      StoreMappingsOpus, StoreMappingsHaiku, StoreAgents, StoreBare }

\* ------------------------------------------ callbacks.load_agent_registry

Mapping(m) == [ kind |-> "mapping", map |-> m ]

\* {a["hash"]: a.get("model", "sonnet") for a in data["agents"]}
AgentsMap(agents) ==
    [ h \in { agents[i].hash : i \in 1..Len(agents) } |->
        LET last == CHOOSE i \in 1..Len(agents) :
                       /\ agents[i].hash = h
                       /\ \A j \in 1..Len(agents) : agents[j].hash = h => j <= i
        IN  IF agents[last].model = Absent THEN Sonnet ELSE agents[last].model.value ]

\* what the function returns: a mapping, or the parsed value itself when it
\* is not an object
load_agent_registry(store) ==
    IF store.status # "ok" THEN Mapping(EmptyRegistry)
    ELSE IF store.kind # "object" THEN [ kind |-> "list" ]
    ELSE IF store.mappings # Absent THEN Mapping(store.mappings.value)
    ELSE IF store.agents # Absent THEN Mapping(AgentsMap(store.agents.value))
    ELSE Mapping(store.entries)

\* what determine_routing makes of the value held in agent_registry: an
\* empty list is as falsy as an empty dictionary
AsRoutingRegistry(loaded) ==
    IF loaded.kind = "mapping" THEN loaded.map ELSE EmptyRegistry

\* ------------------------------------------ registry/agent_hashes.py

Raised(exc) == [ kind |-> "raised", exception |-> exc ]

\* `if _REGISTRY_LOADED`
AlwaysReload(flag) == FALSE

IsLoaded(flag) == flag

\* One call of load_registry() with the flag as given: whether the store was
\* opened, the globals afterwards, and what the caller gets.
LoadRegistryCall(loaded) ==
    IF IsLoaded(loaded)
    THEN [ reads |-> 0, registry |-> AGENT_REGISTRY, loaded |-> loaded,
           result |-> Mapping(AGENT_REGISTRY) ]
    ELSE CASE registryFile.status = "missing" ->
                [ reads |-> 1, registry |-> EmptyRegistry, loaded |-> TRUE,
                  result |-> Mapping(EmptyRegistry) ]
           [] registryFile.status = "malformed" ->
                [ reads |-> 1, registry |-> EmptyRegistry, loaded |-> TRUE,
                  result |-> Mapping(EmptyRegistry) ]
           [] registryFile.status = "unreadable" ->
                [ reads |-> 1, registry |-> AGENT_REGISTRY, loaded |-> loaded,
                  result |-> Raised("PermissionError") ]
           [] registryFile.kind # "object" ->
                [ reads |-> 1, registry |-> AGENT_REGISTRY, loaded |-> loaded,
                  result |-> Raised("AttributeError") ]
           [] OTHER ->
                LET m == IF registryFile.mappings = Absent THEN EmptyRegistry
                         ELSE registryFile.mappings.value
                IN  [ reads |-> 1, registry |-> m, loaded |-> TRUE,
                      result |-> Mapping(m) ]

\* registry.get(agent_hash) on what load_registry() returned
Lookup(result, agent_hash) ==
    IF result.kind = "raised" THEN result
    ELSE [ kind |-> "target",
           target |-> IF agent_hash \in DOMAIN result.map
                      THEN Present(result.map[agent_hash]) ELSE Absent ]

\* ---------------------------------- agent_routing_hook.py: content text

\* " ".join(item.get("text", "") for item in content): every item, whatever
\* its type
JoinAllItems(blocks) == JoinTexts([i \in 1..Len(blocks) |-> blocks[i].text])

\* the text of a message content: a string, or the joined items of a list
ContentText(content) ==
    CASE content.kind = "str" -> content.text
      [] content.kind = "list" -> JoinAllItems(content.blocks)
      [] OTHER -> EmptyText

\* ------------------------------------ agent_routing_hook.py: the hook

\* atoms of a text that hold the substring "Claude Code"
ClaudeCodeBearing == { "Claude Code", CLAUDE_CODE_SYSTEM_PREFIX }

\* [m for m in messages if m.get("role") == "system"]
extract_system_messages(messages) == SelectSeq(messages, LAMBDA m : m.role = "system")

is_claude_code_request(system_messages) ==
    /\ Len(system_messages) >= 2
    /\ LET first_content == ContentText(system_messages[1].content)
       IN  \E i \in 1..Len(first_content) : first_content[i] \in ClaudeCodeBearing

\* the fingerprint of the first system message, had the hook taken that one
extract_agent_hash_of_first(system_messages) ==
    IF ~is_claude_code_request(system_messages) THEN Absent
    ELSE LET agent_content == ContentText(system_messages[1].content)
         IN  IF agent_content = EmptyText THEN Absent
             ELSE Present(utils_compute_agent_hash(agent_content, TRUE))

extract_agent_hash(system_messages) ==
    IF ~is_claude_code_request(system_messages) THEN Absent
    ELSE LET agent_content == ContentText(system_messages[2].content)
         IN  IF agent_content = EmptyText THEN Absent
             ELSE Present(utils_compute_agent_hash(agent_content, TRUE))

NoAgentMetadata ==
    [ kind |-> "dict", agent_hash |-> Absent, routed_from |-> Absent,
      agent_routed |-> FALSE ]

\* AgentRoutingCallback.async_pre_call_hook: the data returned (or the
\* exception raised by the registry) and the registry globals afterwards
AgentRoutingHook(data, call_type) ==
    LET unchanged == [ out |-> [kind |-> "data", data |-> data],
                       registry |-> AGENT_REGISTRY, loaded |-> REGISTRY_LOADED ]
        agent_hash == extract_agent_hash(extract_system_messages(data.messages))
        c == LoadRegistryCall(REGISTRY_LOADED)
        after == [ unchanged EXCEPT !.registry = c.registry, !.loaded = c.loaded ]
    IN  IF call_type # "completion" \/ agent_hash = Absent THEN unchanged
        ELSE IF c.result.kind = "raised" THEN [ after EXCEPT !.out = c.result ]
        ELSE LET target_model == Lookup(c.result, agent_hash.value).target
                 original_model == IF data.model = Absent THEN << "unknown" >>
                                   ELSE data.model.value
                 metadata == IF data.metadata = Absent THEN NoAgentMetadata
                             ELSE data.metadata
             IN  IF target_model \in { Absent, Present(<< >>) } THEN after
                 ELSE [ after EXCEPT !.out.data =
                          [ data EXCEPT
                              !.model = target_model,
                              !.metadata =
                                 [ metadata EXCEPT
                                     !.agent_hash = Present(agent_hash.value),
                                     !.routed_from = Present(original_model),
                                     !.agent_routed = TRUE ] ] ]

\* ------------------------------------------------------ registry: inputs

ClaudeCodeMessage == Message("system", Str(<< "Claude Code" >>))

UserMessage == Message("user", Str(PromptA))

HookMessageLists ==
    { << ClaudeCodeMessage, Message("system", Str(PromptA)), UserMessage >>,
      << ClaudeCodeMessage, Message("system", Blocks(<< TextBlock(PromptB) >>)) >>,
      << ClaudeCodeMessage, Message("system", Str(PromptANotes)) >>,
      << ClaudeCodeMessage, Message("system", Str(EmptyText)) >>,
      << ClaudeCodeMessage, Message("system", Null) >>,
      << Message("system", Str(PromptA)), UserMessage >>,
      << Message("system", Str(PromptA)), Message("system", Str(PromptA)) >>,
      << UserMessage >>,
      << UserMessage,
         Message("system", Blocks(<< TextBlock(<< CLAUDE_CODE_SYSTEM_PREFIX >>) >>)),
         UserMessage, Message("system", Str(PromptA)), Message("system", Str(PromptB)) >> }

HookData(model, messages, metadata) ==
    [ model |-> model, messages |-> messages, metadata |-> metadata ]

HookInputs ==
    { [ data |-> HookData(Present(<< "gpt-x" >>), ms, Absent), call_type |-> ct ] :
         ms \in HookMessageLists, ct \in { "completion", "embedding" } }
    \cup { [ data |-> HookData(Absent, << ClaudeCodeMessage, Message("system", Str(PromptA)) >>,
                               NoAgentMetadata),
             call_type |-> "completion" ] }

NoHookIn == [ data |-> Absent, call_type |-> "none" ]

NoHookOut == [ kind |-> "none" ]

NoRegCall == [ op |-> "none", seq |-> 0, reads |-> 0, result |-> [kind |-> "none"] ]

\* ----------------------------------------------------- registry: actions

RegCall(op, c, result) ==
    /\ AGENT_REGISTRY' = c.registry
    /\ REGISTRY_LOADED' = c.loaded
    /\ regCall' = [ op |-> op, seq |-> 1 - regCall.seq, reads |-> c.reads,
                    result |-> result ]

\* load_registry() / get_registry()
load_registry ==
    /\ LET c == LoadRegistryCall(REGISTRY_LOADED)
       IN  RegCall("load", c, c.result)
    /\ UNCHANGED << impl, credVars, hookVars, routeVars, processVars, handlerVars,
                    laterVars, fingerprintVars, routingHookVars, registryFile, lastReload >>

\* reload_registry(): the flag is cleared, then load_registry() runs
reload_registry ==
    /\ LET c == LoadRegistryCall(FALSE)
       IN  /\ RegCall("reload", c, c.result)
           /\ lastReload' = IF c.result.kind = "mapping" THEN Present(c.result.map)
                            ELSE Absent
    /\ UNCHANGED << impl, credVars, hookVars, routeVars, processVars, handlerVars,
                    laterVars, fingerprintVars, routingHookVars, registryFile >>

get_model_for_hash ==
    /\ \E agent_hash \in { HashA, HashB } :
          LET c == LoadRegistryCall(REGISTRY_LOADED)
          IN  RegCall("get", c, [ hash |-> agent_hash ] @@ Lookup(c.result, agent_hash))
    /\ UNCHANGED << impl, credVars, hookVars, routeVars, processVars, handlerVars,
                    laterVars, fingerprintVars, routingHookVars, registryFile, lastReload >>

\* the store is rewritten, removed or made unreadable out of band
ChangeStore ==
    /\ \E st \in RegistryStores : registryFile' = st
    /\ UNCHANGED << impl, credVars, hookVars, routeVars, processVars, handlerVars,
                    laterVars, fingerprintVars, routingHookVars, AGENT_REGISTRY, REGISTRY_LOADED,
                    regCall, lastReload >>

\* a routing decision taken on the registry the callbacks object holds
RouteRequest ==
    /\ \E body \in { [ model |-> "gpt-x", system |-> Str(PromptA), messages |-> << >> ] } :
          /\ routeIn' = [ body |-> body, agent_registry |-> proxy_agent_registry,
                          ZAI_API_KEY |-> ZAI_API_KEY ]
          /\ routeOut' = determine_routing(body, proxy_agent_registry, ZAI_API_KEY)
    /\ UNCHANGED << impl, credVars, hookVars, processVars, handlerVars, sideVars >>

\* AgentRoutingCallback.async_pre_call_hook applied to the input
agent_routing_pre_call_hook ==
    /\ hookOut = NoHookOut
    /\ LET r == AgentRoutingHook(hookIn.data, hookIn.call_type)
       IN  /\ hookOut' = r.out
           /\ AGENT_REGISTRY' = r.registry
           /\ REGISTRY_LOADED' = r.loaded
    /\ UNCHANGED << impl, credVars, hookVars, routeVars, processVars, handlerVars,
                    laterVars, fingerprintVars, hookIn, registryFile, regCall, lastReload >>

\* --------------- callbacks.ClaudeProxyCallbacks.async_pre_call_hook
\* A model name is a sequence of atoms, as an alias is.

CLAUDE_CODE_VERSION == "2.1.5"

CLAUDE_CODE_USER_AGENT == << "claude-cli/", CLAUDE_CODE_VERSION, " (external, cli)" >>

CLAUDE_CODE_BETA_HEADERS ==
    << OAuthBeta, ",", "interleaved-thinking-2025-05-14", ",",
       "prompt-caching-2024-07-31", ",", "max-tokens-3-5-sonnet-2024-07-15", ",",
       "pdfs-2024-09-25", ",", "token-efficient-tools-2025-02-19" >>

\* platform.machine() and platform.system().lower() of the host
PlatformMachine == "x86_64"

PlatformSystem == "linux"

\* atoms of a model name that hold "claude" or "anthropic"
ClaudeNamed ==
    { "claude-sonnet-4-20250514", "claude-opus-4-5-20251101",
      "claude-3-5-haiku-20241022", "claude-x", "anthropic/" }

\* atoms of a model name that hold "zai-", "openai/" or "gpt-"
AlternateNamed == { ZaiPrefix, "openai/", "gpt-x" }

ModelHolds(model, atoms) == \E i \in 1..Len(model) : model[i] \in atoms

\* the loop over the messages: the first system-role message decides
RECURSIVE FirstSystemPrompt(_)
FirstSystemPrompt(messages) ==
    IF messages = << >> THEN Absent
    ELSE LET msg == messages[1]
         IN  IF msg.role # "system" THEN FirstSystemPrompt(Tail(messages))
             ELSE CASE msg.content.kind = "str" -> msg.content
                    [] msg.content.kind = "list" -> Str(TextOfBlocks(msg.content.blocks))
                    [] OTHER -> Absent

\* data["model"] after the agent routing of the hook
PreCallRouted(data) ==
    LET system_prompt == FirstSystemPrompt(data.messages)
    IN  IF Truthy(system_prompt) /\ DOMAIN proxy_agent_registry # {}
           /\ compute_agent_hash(system_prompt) \in DOMAIN proxy_agent_registry
        THEN [ data EXCEPT !.model = proxy_agent_registry[compute_agent_hash(system_prompt)] ]
        ELSE data

\* the Claude Code identification and Stainless headers the hook writes
SignatureHeaders ==
    ("user-agent" :> CLAUDE_CODE_USER_AGENT)
    @@ ("x-app" :> << "cli" >>)
    @@ ("anthropic-dangerous-direct-browser-access" :> << "true" >>)
    @@ ("anthropic-beta" :> CLAUDE_CODE_BETA_HEADERS)
    @@ ("x-stainless-arch" :> << PlatformMachine >>)
    @@ ("x-stainless-lang" :> << "js" >>)
    @@ ("x-stainless-os" :> << PlatformSystem >>)
    @@ ("x-stainless-package-version" :> << CLAUDE_CODE_VERSION >>)
    @@ ("x-stainless-retry-count" :> << "0" >>)
    @@ ("x-stainless-runtime" :> << "node" >>)
    @@ ("x-stainless-runtime-version" :> << "v22.0.0" >>)

\* data["metadata"]["user_id"] = metadata_user_id
SetUserId(metadata, user_id) == Present(user_id)

\* The hook: what it returns and what the credential cache holds afterwards.
PreCallHook(data) ==
    LET routed == PreCallRouted(data)
        model == routed.model
        is_claude_model == ModelHolds(model, ClaudeNamed)
        is_direct_anthropic == ~ModelHolds(model, AlternateNamed)
        c == CallOutcome(FALSE)
        cred == c.result
        metadata == IF routed.metadata = Absent
                    THEN [kind |-> "dict", user_id |-> Absent]
                    ELSE routed.metadata
        metadata_user_id ==
            << "user_", cred.user_id, "_account_", cred.account_uuid,
               "_session_", SESSION_ID >>
    IN  IF ~(is_claude_model /\ is_direct_anthropic)
        THEN [ data |-> routed, cache |-> CacheRecord, stored |-> FALSE ]
        ELSE IF TokenMissing(cred.token)
        THEN [ data |-> routed, cache |-> c.cache, stored |-> c.stored ]
        ELSE [ data |->
                 [ routed EXCEPT
                     !.extra_headers = SignatureHeaders @@ routed.extra_headers,
                     !.api_key = cred.token,
                     !.metadata = [ metadata EXCEPT
                                      !.user_id = SetUserId(metadata, metadata_user_id) ] ],
               cache |-> c.cache, stored |-> c.stored ]

\* ------------------------------------------------- pre-call hook: inputs

PreCallData(model, messages, extra_headers, metadata) ==
    [ model |-> model, messages |-> messages, extra_headers |-> extra_headers,
      metadata |-> metadata, api_key |-> None ]

SonnetModel == << "claude-sonnet-4-20250514" >>

CallerExtraHeaders ==
    ("user-agent" :> << "curl/8" >>) @@ ("anthropic-beta" :> << "other-beta" >>)
    @@ ("x-trace" :> << "t1" >>)

CallerMetadata == [kind |-> "dict", user_id |-> Present(<< "caller-id" >>)]

PreCallInputs ==
    { PreCallData(model, << Message("user", Str(PromptA)) >>, EmptyDict, Absent) :
         model \in { SonnetModel, << "gpt-x" >>, << "openai/", "claude-x" >>,
                     << "anthropic/", "claude-3-5-haiku-20241022" >> } }
    \cup { PreCallData(SonnetModel, << Message("user", Str(PromptA)) >>, h, md) :
             h \in { EmptyDict, CallerExtraHeaders },
             md \in { Absent, [kind |-> "dict", user_id |-> Absent], CallerMetadata } }
    \cup { PreCallData(SonnetModel, ms, EmptyDict, Absent) :
             ms \in { << Message("system", Str(PromptA)) >>,
                      << Message("system", Str(PromptB)), Message("user", Str(PromptA)) >>,
                      << Message("system", Null), Message("system", Str(PromptA)) >> } }

NoPreCallIn == PreCallData(<< >>, << >>, EmptyDict, Absent)

NoPreCallOut == [ kind |-> "none" ]

\* ------------------------------------------------- pre-call hook: action

async_pre_call_hook ==
    /\ impl = "callbacks"
    /\ preCallOut = NoPreCallOut
    /\ LET h == PreCallHook(preCallIn)
       IN  /\ preCallOut' = [ kind |-> "data", data |-> h.data ]
           /\ SetCache(h.cache)
           /\ everLoaded' = (everLoaded \/ h.stored)
    /\ UNCHANGED << impl, now, credsFile, claudeJson, lastCall, hookVars, routeVars,
                    processVars, handlerVars, fingerprintVars, registryVars,
                    routingHookVars, preCallIn, streamVars, postVars, tokenVars >>

\* ------------------------------------------- callbacks.stream_response
\* The async generator handed to StreamingResponse. It is suspended at each
\* await and at each yield; the consumer resumes it, or cancels it there
\* (GeneratorExit at a yield, CancelledError at an await: neither is an
\* Exception, so only the finally block runs).

MaxChunks == 2

RECURSIVE ChunkListsUpTo(_)
ChunkListsUpTo(n) ==
    IF n = 0 THEN { << >> }
    ELSE ChunkListsUpTo(n - 1)
         \cup { Append(cs, c) : cs \in { x \in ChunkListsUpTo(n - 1) : Len(x) = n - 1 },
                                c \in { "c1", "c2" } }

\* what the upstream does: whether the connection is made, the status of the
\* initial response, the byte chunks of its body, whether they decode as
\* UTF-8, and whether the body ends by a close or by a transport exception
Upstream(connect, status, chunks, decodable, ending) ==
    [ connect |-> connect, status |-> status, chunks |-> chunks,
      decodable |-> decodable, ending |-> ending ]

Upstreams ==
    { Upstream("raises", 0, << >>, TRUE, "closed") }
    \cup { Upstream("ok", st, cs, d, e) :
             st \in { 200, 201, 404, 500 }, cs \in ChunkListsUpTo(MaxChunks),
             d \in BOOLEAN, e \in { "closed", "raises" } }

NoUpstream == Upstream("none", 0, << >>, TRUE, "closed")

Relay(at, client, resp, read, cancelled) ==
    [ pc |-> at, client |-> client, response |-> resp, read |-> read,
      cancelled |-> cancelled ]

NoRelay == Relay("none", "none", "none", 0, FALSE)

Chunk(c) == [ kind |-> "chunk", data |-> << c >>, status |-> 0, type |-> "bytes" ]

\* {'error': {'message': error_body.decode(), 'status': response.status_code}}
StatusErrorEvent(status, body) ==
    [ kind |-> "error", data |-> body, status |-> status, type |-> "status" ]

\* {'error': {'message': str(e), 'type': 'streaming_error'}}
StreamingErrorEvent ==
    [ kind |-> "error", data |-> << "exception" >>, status |-> 0,
      type |-> "streaming_error" ]

StatusIsNot200(status) == status # 200

StatusIsNot2xx(status) == status < 200 \/ status >= 300

\* the points where the generator is suspended
Suspended ==
    { "sending", "reading_error", "reading", "yielded_chunk", "yielded_status_error",
      "yielded_error" }

ExceptSilently ==
    /\ relay' = [ relay EXCEPT !.pc = "finally" ]
    /\ UNCHANGED delivered

\* `except Exception`: one error event is yielded
Except ==
    /\ delivered' = Append(delivered, StreamingErrorEvent)
    /\ relay' = [ relay EXCEPT !.pc = "yielded_error" ]

StreamFrame ==
    UNCHANGED << impl, credVars, hookVars, routeVars, processVars, handlerVars,
                 fingerprintVars, registryVars, routingHookVars, preCallVars, upstream,
                 postVars, tokenVars >>

\* the consumer asks for the first item: the client is made and the request sent
StartRelay ==
    /\ relay.pc = "start"
    /\ relay' = [ relay EXCEPT !.pc = "sending", !.client = "open" ]
    /\ UNCHANGED delivered
    /\ StreamFrame

\* client.send(req, stream=True) returns or raises
SendCompletes ==
    /\ relay.pc = "sending"
    /\ IF upstream.connect = "raises" THEN Except
       ELSE /\ relay' = [ relay EXCEPT
                            !.response = "open",
                            !.pc = IF StatusIsNot200(upstream.status)
                                   THEN "reading_error" ELSE "reading" ]
            /\ UNCHANGED delivered
    /\ StreamFrame

\* response.aread(), error_body.decode() and the error event
ReadErrorBody ==
    /\ relay.pc = "reading_error"
    /\ IF upstream.ending = "raises" \/ ~upstream.decodable
       THEN Except
       ELSE /\ delivered' = Append(delivered,
                                   StatusErrorEvent(upstream.status, upstream.chunks))
            /\ relay' = [ relay EXCEPT !.pc = "yielded_status_error",
                                       !.read = Len(upstream.chunks) ]
    /\ StreamFrame

\* one turn of `async for chunk in response.aiter_bytes(): yield chunk`
NextChunk ==
    /\ relay.pc = "reading"
    /\ IF relay.read < Len(upstream.chunks)
       THEN /\ delivered' = Append(delivered, Chunk(upstream.chunks[relay.read + 1]))
            /\ relay' = [ relay EXCEPT !.pc = "yielded_chunk", !.read = @ + 1 ]
       ELSE IF upstream.ending = "raises" THEN Except
       ELSE /\ relay' = [ relay EXCEPT !.pc = "finally" ]
            /\ UNCHANGED delivered
    /\ StreamFrame

\* the consumer asks for the next item
Resume ==
    /\ relay.pc \in { "yielded_chunk", "yielded_status_error", "yielded_error" }
    /\ relay' = [ relay EXCEPT !.pc = IF @ = "yielded_chunk" THEN "reading"
                                      ELSE "finally" ]
    /\ UNCHANGED delivered
    /\ StreamFrame

CancelKeepsDraining ==
    /\ relay.pc \in Suspended \cup { "start" }
    /\ relay' = [ relay EXCEPT !.cancelled = TRUE ]
    /\ UNCHANGED delivered
    /\ StreamFrame

\* the consumer goes away: the generator is closed where it is suspended in
\* the try block; the two awaits of the finally block then run to completion
Cancel ==
    /\ relay.pc \in Suspended \cup { "start" }
    /\ relay' = [ relay EXCEPT !.cancelled = TRUE,
                               !.pc = IF @ = "start" THEN "done" ELSE "finally" ]
    /\ UNCHANGED delivered
    /\ StreamFrame

\* finally: `if response: await response.aclose()`
CloseResponse ==
    /\ relay.pc = "finally"
    /\ relay' = [ relay EXCEPT !.pc = "closing_client",
                               !.response = IF @ = "open" THEN "closed" ELSE @ ]
    /\ UNCHANGED delivered
    /\ StreamFrame

CloseClientSkipped ==
    /\ relay.pc = "closing_client"
    /\ relay' = [ relay EXCEPT !.pc = "done" ]
    /\ UNCHANGED delivered
    /\ StreamFrame

\* finally: `if client: await client.aclose()`, and the generator ends
CloseClient ==
    /\ relay.pc = "closing_client"
    /\ relay' = [ relay EXCEPT !.pc = "done",
                               !.client = IF @ = "open" THEN "closed" ELSE @ ]
    /\ UNCHANGED delivered
    /\ StreamFrame

\* ------------------------------------------- the non-streaming relay: values

\* JSONResponse(status_code=..., content={"error": {"message": ..., "type": ...}})
Reply(status, type, message) == [ status |-> status, type |-> type, message |-> message ]

NoReply == Reply(0, "none", << >>)

NoPost == [ calls |-> 0, reply |-> NoReply ]

\* --------------------------------------------- oauth_hook.get_access_token
\* The token object of the credentials document with its expiresAt. A
\* number n is kept as thousands and units, n = thousands * 1000 + units, so
\* that millisecond timestamps above 1e12 can be written.

\* time.time() at the first step of a run of the token functions
TokenStartTime == 1700000000

\* is_token_expired: buffer_seconds
BufferSeconds == 300

\* is_token_expired: 1e12, in thousands
MillisecondsThreshold == 1000000000

Number(thousands, units) == [ thousands |-> thousands, units |-> units ]

Seconds(n) == Number(n \div 1000, n % 1000)

Millis(seconds, ms) == Number(seconds, ms)

TokenObject(tok, exp) == [ isNone |-> FALSE, accessToken |-> tok, expiresAt |-> exp ]

\* data.get("claudeAiOauth") of a document without the key
NoTokenObject == [ isNone |-> TRUE, accessToken |-> None, expiresAt |-> Seconds(0) ]

TokenFile(st, token) == [ status |-> st, claudeAiOauth |-> token ]

TokenFileMissing == TokenFile("missing", NoTokenObject)

NoTokenCache == [ token |-> NoTokenObject, time |-> 0 ]

\* load_oauth_credentials(force) on the token object: a hit, or one open of
\* the document; a missing or unloadable document returns None and leaves
\* both globals as they were
TokenLoad(force, cache, file, t) ==
    IF ~force /\ ~cache.token.isNone /\ (t - cache.time) < CACHE_TTL_SECONDS
    THEN [ cache |-> cache, result |-> cache.token ]
    ELSE IF file.status = "ok"
    THEN [ cache |-> [ token |-> file.claudeAiOauth, time |-> t ],
           result |-> file.claudeAiOauth ]
    ELSE [ cache |-> cache, result |-> NoTokenObject ]

is_token_expired_without_buffer(token, t) ==
    LET e == token.expiresAt
    IN  IF \/ e.thousands > MillisecondsThreshold
           \/ e.thousands = MillisecondsThreshold /\ e.units > 0
        THEN t > e.thousands
        ELSE IF e.thousands > TokenStartTime \div 1000 + 1000 THEN FALSE
        ELSE t > e.thousands * 1000 + e.units

\* time.time() > expires_at - buffer_seconds, expires_at divided by 1000 when
\* it is above 1e12; t is a whole number of seconds. A timestamp in seconds
\* more than a million seconds after the start of the run is not multiplied
\* out: it is later than every time of the run.
is_token_expired(token, t) ==
    LET e == token.expiresAt
    IN  IF \/ e.thousands > MillisecondsThreshold
           \/ e.thousands = MillisecondsThreshold /\ e.units > 0
        THEN t + BufferSeconds > e.thousands
        ELSE IF e.thousands > TokenStartTime \div 1000 + 1000 THEN FALSE
        ELSE t > e.thousands * 1000 + e.units - BufferSeconds

Access(t, token, first, from, reloads) ==
    [ at |-> t, token |-> token, first |-> first, from |-> from,
      reloads |-> reloads ]

NoAccess == Access(0, None, NoTokenObject, NoTokenObject, 0)

\* get_access_token(): the token it returns, the token object the first load
\* gave, the token object it last examined, the forced reloads it made and the
\* cache it leaves
GetAccessToken(cache, file, t) ==
    LET first == TokenLoad(FALSE, cache, file, t)
        second == TokenLoad(TRUE, first.cache, file, t)
    IN  IF first.result.isNone
        THEN [ access |-> Access(t, None, first.result, first.result, 0),
               cache |-> first.cache ]
        ELSE IF ~is_token_expired(first.result, t)
        THEN [ access |-> Access(t, first.result.accessToken, first.result,
                                 first.result, 0),
               cache |-> first.cache ]
        ELSE IF second.result.isNone \/ is_token_expired(second.result, t)
        THEN [ access |-> Access(t, None, first.result, second.result, 1),
               cache |-> second.cache ]
        ELSE [ access |-> Access(t, second.result.accessToken, first.result,
                                 second.result, 1),
               cache |-> second.cache ]

\* str.lower() on the atoms of a model name
Lower(atom) ==
    CASE atom = "CLAUDE-X" -> "claude-x"
      [] atom = "Anthropic/" -> "anthropic/"
      [] OTHER -> atom

\* "claude" in model or "anthropic" in model, on data.get("model", "").lower()
is_anthropic_request(data) ==
    ModelHolds([ i \in 1..Len(data.model) |-> Lower(data.model[i]) ], ClaudeNamed)

InjectData(model, extra_headers, metadata) ==
    [ model |-> model, extra_headers |-> extra_headers, metadata |-> metadata ]

InjectMetadata(tag, injected) == [ tag |-> tag, oauth_injected |-> injected ]

\* OAuthInjectionCallback.async_pre_call_hook: the data it returns, the call
\* of get_access_token it made, if any, and the cache it leaves
OAuthInjection(data, call_type, cache, file, t) ==
    IF call_type # "completion" \/ ~is_anthropic_request(data)
    THEN [ data |-> data, called |-> FALSE, access |-> NoAccess, cache |-> cache ]
    ELSE LET g == GetAccessToken(cache, file, t)
             a == g.access
             headers == IF data.extra_headers = Absent THEN EmptyDict
                        ELSE data.extra_headers.value
             metadata == IF data.metadata = Absent THEN InjectMetadata(<< >>, Absent)
                         ELSE data.metadata.value
         IN  IF a.token \in { None, "" }
             THEN [ data |-> data, called |-> TRUE, access |-> a, cache |-> g.cache ]
             ELSE [ data |->
                       [ data EXCEPT
                           !.extra_headers =
                               Present(Put(headers, "Authorization",
                                           << "Bearer ", a.token >>)),
                           !.metadata =
                               Present([ metadata EXCEPT
                                           !.oauth_injected = Present(TRUE) ]) ],
                    called |-> TRUE, access |-> a, cache |-> g.cache ]

NoInjectIn == [ data |-> InjectData(<< >>, Absent, Absent), call_type |-> "none" ]

\* ---------------------------------------------------- fingerprint: inputs

MaxPromptLen == 3

MaxSuffixLen == 2

MaxSegments == 3

TextAtoms == { "a", " ", Newline, NotesMarker }

TextsUpTo(n) == UNION { [1..k -> TextAtoms] : k \in 0..n }

SegmentKinds == { TextBlock(<< "a" >>), TextBlock(<< "b" >>), ImageBlock }

SegmentLists == UNION { [1..k -> SegmentKinds] : k \in 0..MaxSegments }

HashInputs ==
    { [kind |-> "text", p |-> p, marker |-> Separators[m], s |-> t] :
         p \in TextsUpTo(MaxPromptLen), m \in 1..Len(Separators),
         t \in TextsUpTo(MaxSuffixLen) }
    \cup { [kind |-> "segments", blocks |-> bs] : bs \in SegmentLists }

NoHashOut == [kind |-> "none"]

\* each fingerprint function applied to the input
Fingerprints(in) ==
    IF in.kind = "text"
    THEN LET full == in.p \o in.marker \o in.s
         IN  [ kind |-> "text",
               utils_p |-> utils_compute_agent_hash(in.p, TRUE),
               utils_full |-> utils_compute_agent_hash(full, TRUE),
               callbacks_p |-> compute_agent_hash(Str(in.p)),
               callbacks_full |-> compute_agent_hash(Str(full)) ]
    ELSE [ kind |-> "segments",
           callbacks |-> compute_agent_hash(Blocks(in.blocks)),
           messages |-> extract_system_prompt(<< Message("system", Blocks(in.blocks)) >>).text,
           hook |-> utils_compute_agent_hash(ContentText(Blocks(in.blocks)), TRUE) ]

Fingerprint ==
    /\ hashOut = NoHashOut
    /\ hashOut' = Fingerprints(hashIn)
    /\ UNCHANGED << impl, credVars, hookVars, routeVars, processVars, handlerVars,
                    laterVars, hashIn, registryVars, routingHookVars >>

RegistryIdle ==
    /\ registryFile = StoreMissing
    /\ AGENT_REGISTRY = EmptyRegistry
    /\ REGISTRY_LOADED = FALSE
    /\ regCall = NoRegCall
    /\ lastReload = Absent

RoutingHookIdle == hookIn = NoHookIn /\ hookOut = NoHookOut

FingerprintIdle == hashIn = [kind |-> "none"] /\ hashOut = NoHashOut

PreCallIdle == preCallIn = NoPreCallIn /\ preCallOut = NoPreCallOut

StreamIdle == upstream = NoUpstream /\ relay = NoRelay /\ delivered = << >>

PostIdle == post = NoPost

TokenIdle ==
    /\ tokenFile = TokenFileMissing
    /\ tokenCache = NoTokenCache
    /\ accessOut = NoAccess
    /\ injectIn = NoInjectIn
    /\ injectOut = Absent

LaterIdle == PreCallIdle /\ StreamIdle /\ PostIdle /\ TokenIdle

SideIdle == FingerprintIdle /\ RegistryIdle /\ RoutingHookIdle /\ LaterIdle

\* ------------------------------------------------------ handler: inputs

HandlerBody(model, system, tools, temperature, metadata) ==
    [ model |-> model, system |-> system,
      messages |-> << Message("user", Str(PromptA)) >>,
      tools |-> tools, temperature |-> temperature, metadata |-> metadata,
      stream |-> FALSE ]

Json(obj) == [kind |-> "json", obj |-> obj]

Malformed == [kind |-> "bytes"]

BodyPlain ==
    Json(HandlerBody("gpt-x", Str(PromptA), Absent, Present(<< "0.7" >>), Absent))

BodyCallerMetadata ==
    Json(HandlerBody(None, Absent, Present(<< "tool" >>), Absent,
                     [kind |-> "dict", user_id |-> Present(<< "caller-id" >>)]))

BodyZai ==
    Json(HandlerBody("gpt-x", Str(PromptB), Absent, Absent, Absent))

BodyPrefixed ==
    Json(HandlerBody("gpt-x", Blocks(<< claude_code_block, TextBlock(PromptA) >>),
                     Absent, Absent, [kind |-> "dict", user_id |-> Absent]))

PromptC == << "c" >>

\* two system-role messages: the client's own, then the agent's definition
BodyAgentPattern ==
    Json([ HandlerBody("gpt-x", Absent, Absent, Absent, Absent) EXCEPT
             !.messages = << ClaudeCodeMessage, Message("system", Str(PromptC)),
                             UserMessage >> ])

CallerToken == Bearer("caller-token")

CallerKey == << "caller-key" >>

HeadersFull ==
    ("authorization" :> CallerToken) @@ ("x-api-key" :> CallerKey)
    @@ ("user-agent" :> << "curl/8" >>) @@ ("anthropic-beta" :> << "other-beta" >>)

HeadersClaudeCode ==
    ("authorization" :> CallerToken) @@ ("anthropic-beta" :> << OAuthBeta >>)
    @@ ("anthropic-version" :> << "2023-01-01" >>) @@ ("x-stainless-arch" :> << "arm64" >>)

HeadersKeyOnly ==
    ("x-api-key" :> CallerKey) @@ ("cookie" :> << "c=1" >>)
    @@ ("anthropic-beta" :> << >>)

\* a beta feature whose name holds the text "oauth-2025-04-20"
HeadersBetaLookalike ==
    ("anthropic-beta" :> << "x-oauth-2025-04-20-preview" >>)

Requests ==
    { [request_body |-> BodyPlain, request_headers |-> h] :
         h \in { EmptyDict, HeadersFull, HeadersClaudeCode, HeadersKeyOnly,
                 HeadersBetaLookalike } }
    \cup { [request_body |-> b, request_headers |-> HeadersFull] :
             b \in { BodyCallerMetadata, BodyZai, BodyPrefixed, BodyAgentPattern,
                     Malformed } }

PrefixSentence == << CLAUDE_CODE_SYSTEM_PREFIX >>

\* the reference values, sent by a caller that is the reference client
HeadersSignature ==
    ("user-agent" :> CLAUDE_CODE_USER_AGENT) @@ ("x-app" :> << "cli" >>)
    @@ ("anthropic-dangerous-direct-browser-access" :> << "true" >>)
    @@ ("anthropic-beta" :> CLAUDE_CODE_BETA_HEADERS)
    @@ ("x-stainless-arch" :> << PlatformMachine >>)
    @@ ("x-stainless-lang" :> << "js" >>)
    @@ ("x-stainless-os" :> << PlatformSystem >>)
    @@ ("x-stainless-package-version" :> << CLAUDE_CODE_VERSION >>)
    @@ ("x-stainless-retry-count" :> << "0" >>)
    @@ ("x-stainless-runtime" :> << "node" >>)
    @@ ("x-stainless-runtime-version" :> << "v22.0.0" >>)

NormalizationSystems ==
    SystemValues
    \cup { Null, Str(PrefixSentence), Str(PrefixSentence \o PromptA),
           Blocks(<< TextBlock(PrefixSentence \o << " x" >>), TextBlock(PromptA) >>),
           Blocks(<< TextBlock(PromptA), TextBlock(PrefixSentence) >>) }

NormalizationRequests ==
    { [ request_body |->
           Json(HandlerBody("gpt-x", sys, Absent, Present(<< "0.7" >>), Absent)),
        request_headers |-> HeadersFull ] : sys \in NormalizationSystems }
    \cup { [ request_body |->
               Json(HandlerBody(None, Absent, Present(<< "tool" >>), Absent, md)),
             request_headers |-> HeadersFull ] :
             md \in { Absent, [kind |-> "dict", user_id |-> Absent], CallerMetadata } }
    \cup { [ request_body |-> BodyPlain, request_headers |-> h ] :
             h \in { EmptyDict, HeadersClaudeCode, HeadersKeyOnly, HeadersBetaLookalike,
                     HeadersSignature } }
    \cup { [ request_body |->
               Json(HandlerBody("gpt-x", Str(PromptB), Absent, Present(<< "0.7" >>),
                                CallerMetadata)),
             request_headers |-> HeadersFull ] }

RegistryAB ==
    (Sha256Hex16(PromptA) :> Opus) @@ (Sha256Hex16(PromptB) :> (<< ZaiPrefix >> \o Haiku))
    @@ (Sha256Hex16(PromptC) :> Sonnet)

\* ------------------------------------------------------ handler: actions

\* The synchronous part of the handler from json.loads to the point where
\* the identity is looked up again: what it returns or has built by then.
HandlerStart(request_body, request_headers) ==
    IF request_body.kind # "json"
    THEN [ pc |-> "responded", locals |-> NoLocals,
           response |-> JSONResponse(500, "internal_error"),
           cache |-> CacheRecord, stored |-> FALSE ]
    ELSE LET routing == determine_routing(request_body.obj, proxy_agent_registry,
                                          ZAI_API_KEY)
             body == [request_body.obj EXCEPT !.model = routing.model]
             is_zai_route == routing.api_key # None
             c == CallOutcome(FALSE)
             oauth_token == c.result.token
         IN  IF is_zai_route
             THEN LET headers == ZaiHeaders(routing.api_key)
                      api_url == << routing.api_base, "/v1/messages" >>
                  IN  [ pc |-> "upstream",
                        locals |-> [ body |-> body, headers |-> headers,
                                     api_url |-> api_url, oauth_token |-> None ],
                        response |-> UpstreamCall(api_url, headers, body),
                        cache |-> CacheRecord, stored |-> FALSE ]
             ELSE IF TokenMissing(oauth_token)
             THEN [ pc |-> "responded", locals |-> NoLocals,
                    response |-> JSONResponse(401, "authentication_error"),
                    cache |-> c.cache, stored |-> c.stored ]
             ELSE LET headers == OAuthHeaders(request_headers, oauth_token)
                      normal == NormalizedBody(body)
                      api_url == << routing.api_base >>
                      built == [ body |-> normal, headers |-> headers,
                                 api_url |-> api_url, oauth_token |-> oauth_token ]
                  IN  IF normal.metadata.user_id = Absent
                      THEN [ pc |-> "metadata", locals |-> built,
                             response |-> NoResponse,
                             cache |-> c.cache, stored |-> c.stored ]
                      ELSE [ pc |-> "upstream", locals |-> built,
                             response |-> UpstreamCall(api_url, headers, normal),
                             cache |-> c.cache, stored |-> c.stored ]

HandleRequest(requests) ==
    /\ impl = "callbacks"
    /\ pc = "idle"
    /\ \E r \in requests :
          LET h == HandlerStart(r.request_body, r.request_headers)
          IN  /\ request' = r
              /\ pc' = h.pc
              /\ locals' = h.locals
              /\ response' = h.response
              /\ SetCache(h.cache)
              /\ everLoaded' = (everLoaded \/ h.stored)
    /\ UNCHANGED << impl, now, credsFile, claudeJson, lastCall, hookVars,
                    routeVars, processVars, sideVars >>

handle_messages_request == HandleRequest(Requests)

\* the same handler on the requests that exercise the normalization
handle_messages_request_normalizing == HandleRequest(NormalizationRequests)

\* the second load_oauth_credentials() of the request, metadata.user_id and
\* the POST to the upstream
inject_metadata_user_id ==
    /\ pc = "metadata"
    /\ LET c == CallOutcome(FALSE)
           body == [ locals.body EXCEPT !.metadata.user_id =
                       Present(MetadataUserId(c.result.user_id, c.result.account_uuid)) ]
       IN  /\ SetCache(c.cache)
           /\ everLoaded' = (everLoaded \/ c.stored)
           /\ locals' = [ locals EXCEPT !.body = body ]
           /\ response' = UpstreamCall(locals.api_url, locals.headers, body)
    /\ pc' = "upstream"
    /\ UNCHANGED << impl, now, credsFile, claudeJson, lastCall, hookVars,
                    routeVars, processVars, sideVars, request >>

\* the response goes back to the caller and the coroutine ends
Complete ==
    /\ pc \in { "responded", "upstream" }
    /\ pc' = "idle"
    /\ request' = NoRequest
    /\ locals' = NoLocals
    /\ response' = NoResponse
    /\ UNCHANGED << impl, credVars, hookVars, routeVars, processVars, sideVars >>

\* POST /api/invalidate-credentials
handle_invalidate_credentials ==
    /\ impl = "callbacks"
    /\ pc = "idle"
    /\ SetCache(InvalidatedCache(CacheRecord))
    /\ UNCHANGED << impl, now, credsFile, claudeJson, lastCall, everLoaded,
                    hookVars, routeVars, processVars, handlerVars, sideVars >>

\* ----------------------------------------------------------- specification

NoCall ==
    [ op |-> "none", force |-> FALSE,
      prev |-> [ op |-> "none", force |-> FALSE, failed |-> FALSE,
                 hadToken |-> FALSE, fresh |-> FALSE ],
      seq |-> 0, hadToken |-> FALSE, fresh |-> FALSE, everBefore |-> FALSE,
      reads |-> 0, failed |-> FALSE, whole |-> TRUE, result |-> NoCred ]

CredInit ==
    /\ impl \in {"callbacks", "oauth_hook"}
    /\ HOOK_OAUTH_TOKEN = HookNone
    /\ HOOK_LAST_LOAD_TIME = 0
    /\ now = StartTime
    /\ credsFile \in CredsStates
    /\ claudeJson \in ClaudeJsonStates
    /\ OAUTH_TOKEN_CACHE = None
    /\ OAUTH_USER_ID_CACHE = None
    /\ OAUTH_ACCOUNT_UUID_CACHE = None
    /\ OAUTH_CACHE_TIME = 0
    /\ lastCall = NoCall
    /\ everLoaded = FALSE
    /\ cacheFrom = [user_id |-> FALSE, account_uuid |-> FALSE]
    /\ RouteIdle
    /\ proxy_agent_registry = EmptyRegistry
    /\ ZAI_API_KEY = None
    /\ HandlerIdle
    /\ SideIdle

GetCached == load_oauth_credentials(FALSE)

GetForced == load_oauth_credentials(TRUE)

HookGetCached == hook_load_oauth_credentials(FALSE)

HookGetForced == hook_load_oauth_credentials(TRUE)

CredNext ==
    \/ GetCached
    \/ GetForced
    \/ invalidate_credential_cache
    \/ HookGetCached
    \/ HookGetForced
    \/ hook_invalidate_credential_cache
    \/ Tick
    \/ RotateCredentials
    \/ RotateClaudeJson

SpecCred == CredInit /\ [][CredNext]_vars

\* determine_routing applied to the request, the registry and the environment
Resolve ==
    /\ routeOut = NoDecision
    /\ routeOut' = determine_routing(routeIn.body, routeIn.agent_registry,
                                     routeIn.ZAI_API_KEY)
    /\ UNCHANGED << impl, credVars, hookVars, routeIn, processVars, handlerVars,
                    sideVars >>

RouteInit ==
    /\ impl = "callbacks"
    /\ HOOK_OAUTH_TOKEN = HookNone
    /\ HOOK_LAST_LOAD_TIME = 0
    /\ now = StartTime
    /\ credsFile = CredsMissing
    /\ claudeJson = ClaudeJson("missing", None, None)
    /\ OAUTH_TOKEN_CACHE = None
    /\ OAUTH_USER_ID_CACHE = None
    /\ OAUTH_ACCOUNT_UUID_CACHE = None
    /\ OAUTH_CACHE_TIME = 0
    /\ lastCall = NoCall
    /\ everLoaded = FALSE
    /\ cacheFrom = [user_id |-> FALSE, account_uuid |-> FALSE]
    /\ routeIn \in [ body : Bodies, agent_registry : Registries, ZAI_API_KEY : ZaiKeys ]
    /\ routeOut = NoDecision
    /\ proxy_agent_registry = EmptyRegistry
    /\ ZAI_API_KEY = None
    /\ HandlerIdle
    /\ SideIdle

RouteNext == Resolve

SpecRoute == RouteInit /\ [][RouteNext]_vars

HashInit ==
    /\ impl = "callbacks"
    /\ HOOK_OAUTH_TOKEN = HookNone
    /\ HOOK_LAST_LOAD_TIME = 0
    /\ now = StartTime
    /\ credsFile = CredsMissing
    /\ claudeJson = ClaudeJson("missing", None, None)
    /\ OAUTH_TOKEN_CACHE = None
    /\ OAUTH_USER_ID_CACHE = None
    /\ OAUTH_ACCOUNT_UUID_CACHE = None
    /\ OAUTH_CACHE_TIME = 0
    /\ lastCall = NoCall
    /\ everLoaded = FALSE
    /\ cacheFrom = [user_id |-> FALSE, account_uuid |-> FALSE]
    /\ RouteIdle
    /\ proxy_agent_registry = EmptyRegistry
    /\ ZAI_API_KEY = None
    /\ HandlerIdle
    /\ hashIn \in HashInputs
    /\ hashOut = NoHashOut
    /\ RegistryIdle
    /\ RoutingHookIdle
    /\ LaterIdle

HashNext == Fingerprint

SpecHash == HashInit /\ [][HashNext]_vars

HandlerInit ==
    /\ impl = "callbacks"
    /\ HOOK_OAUTH_TOKEN = HookNone
    /\ HOOK_LAST_LOAD_TIME = 0
    /\ now = StartTime
    /\ credsFile \in CredsStates
    /\ claudeJson \in ClaudeJsonStates
    /\ OAUTH_TOKEN_CACHE = None
    /\ OAUTH_USER_ID_CACHE = None
    /\ OAUTH_ACCOUNT_UUID_CACHE = None
    /\ OAUTH_CACHE_TIME = 0
    /\ lastCall = NoCall
    /\ everLoaded = FALSE
    /\ cacheFrom = [user_id |-> FALSE, account_uuid |-> FALSE]
    /\ RouteIdle
    /\ proxy_agent_registry \in { EmptyRegistry, RegistryAB }
    /\ ZAI_API_KEY \in { None, "zai-key" }
    /\ HandlerIdle
    /\ SideIdle

HandlerNext ==
    \/ handle_messages_request
    \/ inject_metadata_user_id
    \/ Complete
    \/ handle_invalidate_credentials
    \/ Tick
    \/ RotateCredentials
    \/ RotateClaudeJson

SpecHandler == HandlerInit /\ [][HandlerNext]_vars

\* ------------------------------------------------- registry: specification

CredIdle ==
    /\ HOOK_OAUTH_TOKEN = HookNone
    /\ HOOK_LAST_LOAD_TIME = 0
    /\ now = StartTime
    /\ credsFile = CredsMissing
    /\ claudeJson = ClaudeJson("missing", None, None)
    /\ OAUTH_TOKEN_CACHE = None
    /\ OAUTH_USER_ID_CACHE = None
    /\ OAUTH_ACCOUNT_UUID_CACHE = None
    /\ OAUTH_CACHE_TIME = 0
    /\ lastCall = NoCall
    /\ everLoaded = FALSE
    /\ cacheFrom = [user_id |-> FALSE, account_uuid |-> FALSE]

\* the registry module as imported (nothing loaded) and the callbacks object
\* as constructed (its registry read once from the store)
RegistryInit ==
    /\ impl = "callbacks"
    /\ CredIdle
    /\ RouteIdle
    /\ ZAI_API_KEY = None
    /\ HandlerIdle
    /\ FingerprintIdle
    /\ LaterIdle
    /\ RoutingHookIdle
    /\ registryFile \in RegistryStores
    /\ proxy_agent_registry = AsRoutingRegistry(load_agent_registry(registryFile))
    /\ AGENT_REGISTRY = EmptyRegistry
    /\ REGISTRY_LOADED = FALSE
    /\ regCall = NoRegCall
    /\ lastReload = Absent

RegistryNext ==
    \/ load_registry
    \/ reload_registry
    \/ get_model_for_hash
    \/ ChangeStore
    \/ RouteRequest

SpecRegistry == RegistryInit /\ [][RegistryNext]_vars

\* the module states a process can be in when the hook is called
ModuleStates ==
    { [ registry |-> EmptyRegistry, loaded |-> FALSE ] }
    \cup { [ registry |-> m, loaded |-> TRUE ] : m \in { EmptyRegistry, MapOpus, MapHaiku } }

RoutingHookInit ==
    /\ impl = "callbacks"
    /\ CredIdle
    /\ RouteIdle
    /\ ZAI_API_KEY = None
    /\ proxy_agent_registry = EmptyRegistry
    /\ HandlerIdle
    /\ FingerprintIdle
    /\ LaterIdle
    /\ registryFile \in RegistryStores
    /\ \E st \in ModuleStates :
          /\ AGENT_REGISTRY = st.registry
          /\ REGISTRY_LOADED = st.loaded
    /\ regCall = NoRegCall
    /\ lastReload = Absent
    /\ hookIn \in HookInputs
    /\ hookOut = NoHookOut

RoutingHookNext == agent_routing_pre_call_hook

SpecRoutingHook == RoutingHookInit /\ [][RoutingHookNext]_vars

\* ------------------------------------------------ pre-call hook: specification

PreCallInit ==
    /\ impl = "callbacks"
    /\ HOOK_OAUTH_TOKEN = HookNone
    /\ HOOK_LAST_LOAD_TIME = 0
    /\ now = StartTime
    /\ credsFile \in CredsStates
    /\ claudeJson \in ClaudeJsonStates
    /\ OAUTH_TOKEN_CACHE = None
    /\ OAUTH_USER_ID_CACHE = None
    /\ OAUTH_ACCOUNT_UUID_CACHE = None
    /\ OAUTH_CACHE_TIME = 0
    /\ lastCall = NoCall
    /\ everLoaded = FALSE
    /\ cacheFrom = [user_id |-> FALSE, account_uuid |-> FALSE]
    /\ RouteIdle
    /\ proxy_agent_registry \in { EmptyRegistry, RegistryAB }
    /\ ZAI_API_KEY = None
    /\ HandlerIdle
    /\ FingerprintIdle
    /\ RegistryIdle
    /\ RoutingHookIdle
    /\ StreamIdle
    /\ PostIdle
    /\ TokenIdle
    /\ preCallIn \in PreCallInputs
    /\ preCallOut = NoPreCallOut

PreCallNext == async_pre_call_hook

SpecPreCall == PreCallInit /\ [][PreCallNext]_vars

\* ------------------------------------------------------ relay: specification

\* a streaming request has been answered with the generator, not yet started
StreamInit ==
    /\ impl = "callbacks"
    /\ CredIdle
    /\ RouteIdle
    /\ ZAI_API_KEY = None
    /\ proxy_agent_registry = EmptyRegistry
    /\ HandlerIdle
    /\ FingerprintIdle
    /\ RegistryIdle
    /\ RoutingHookIdle
    /\ PreCallIdle
    /\ PostIdle
    /\ TokenIdle
    /\ upstream \in Upstreams
    /\ relay = Relay("start", "none", "none", 0, FALSE)
    /\ delivered = << >>

StreamNext ==
    \/ StartRelay
    \/ SendCompletes
    \/ ReadErrorBody
    \/ NextChunk
    \/ Resume
    \/ Cancel
    \/ CloseResponse
    \/ CloseClient

SpecStream == StreamInit /\ [][StreamNext]_vars

\* ------------------------------------------ get_access_token: specification

\* expiresAt of the documents, around the first time of a run: absent (0),
\* inside the buffer, on its edge and beyond it, in seconds and milliseconds
ExpiryValues ==
    { Seconds(0),
      Seconds(TokenStartTime + BufferSeconds - 1),
      Seconds(TokenStartTime + BufferSeconds),
      Millis(TokenStartTime + BufferSeconds - 1, 999),
      Millis(TokenStartTime + BufferSeconds + TickStep, 0) }

\* the documents the account manager may leave: tokA with each expiresAt,
\* tokB with a later one, a document without the key, and no document
TokenFiles ==
    { TokenFile("ok", TokenObject("tokA", exp)) : exp \in ExpiryValues }
    \cup { TokenFile("ok", TokenObject("tokB",
                       Seconds(TokenStartTime + BufferSeconds + MaxTicks * TickStep))),
           TokenFile("ok", NoTokenObject), TokenFileMissing }

InjectInputs ==
    { [ data |-> InjectData(<< "claude-sonnet-4-20250514" >>, Absent, Absent),
        call_type |-> "completion" ],
      [ data |-> InjectData(<< "CLAUDE-X" >>,
                            Present(Put(EmptyDict, "x-app", << "cli" >>)),
                            Present(InjectMetadata(<< "t" >>, Absent))),
        call_type |-> "completion" ],
      [ data |-> InjectData(<< "gpt-x" >>, Absent, Absent), call_type |-> "completion" ],
      [ data |-> InjectData(<< "claude-sonnet-4-20250514" >>, Absent, Absent),
        call_type |-> "embedding" ] }

TokenFrame ==
    UNCHANGED << impl, credsFile, claudeJson, OAUTH_TOKEN_CACHE, OAUTH_USER_ID_CACHE,
                 OAUTH_ACCOUNT_UUID_CACHE, OAUTH_CACHE_TIME, lastCall, everLoaded,
                 cacheFrom, hookVars, routeVars, processVars, handlerVars,
                 fingerprintVars, registryVars, routingHookVars, preCallVars,
                 streamVars, postVars >>

\* a caller of get_access_token()
get_access_token ==
    LET g == GetAccessToken(tokenCache, tokenFile, now)
    IN  /\ accessOut' = g.access
        /\ tokenCache' = g.cache
        /\ UNCHANGED << now, tokenFile, injectIn, injectOut >>
        /\ TokenFrame

\* OAuthInjectionCallback.async_pre_call_hook on the request of the run
oauth_pre_call_hook ==
    /\ injectOut = Absent
    /\ LET r == OAuthInjection(injectIn.data, injectIn.call_type, tokenCache,
                               tokenFile, now)
       IN  /\ injectOut' = Present(r.data)
           /\ tokenCache' = r.cache
           /\ accessOut' = IF r.called THEN r.access ELSE accessOut
    /\ UNCHANGED << now, tokenFile, injectIn >>
    /\ TokenFrame

\* the account manager rewrites, removes or damages the credentials document
RotateToken ==
    /\ tokenFile' \in TokenFiles \ { tokenFile }
    /\ UNCHANGED << now, tokenCache, accessOut, injectIn, injectOut >>
    /\ TokenFrame

TokenTick ==
    /\ now + TickStep <= TokenStartTime + MaxTicks * TickStep
    /\ now' = now + TickStep
    /\ UNCHANGED tokenVars
    /\ TokenFrame

TokenInit ==
    /\ impl = "oauth_hook"
    /\ HOOK_OAUTH_TOKEN = HookNone
    /\ HOOK_LAST_LOAD_TIME = 0
    /\ now = TokenStartTime
    /\ credsFile = CredsMissing
    /\ claudeJson = ClaudeJson("missing", None, None)
    /\ OAUTH_TOKEN_CACHE = None
    /\ OAUTH_USER_ID_CACHE = None
    /\ OAUTH_ACCOUNT_UUID_CACHE = None
    /\ OAUTH_CACHE_TIME = 0
    /\ lastCall = NoCall
    /\ everLoaded = FALSE
    /\ cacheFrom = [user_id |-> FALSE, account_uuid |-> FALSE]
    /\ RouteIdle
    /\ ZAI_API_KEY = None
    /\ proxy_agent_registry = EmptyRegistry
    /\ HandlerIdle
    /\ FingerprintIdle
    /\ RegistryIdle
    /\ RoutingHookIdle
    /\ PreCallIdle
    /\ StreamIdle
    /\ PostIdle
    /\ tokenFile \in TokenFiles
    /\ tokenCache = NoTokenCache
    /\ accessOut = NoAccess
    /\ injectIn \in InjectInputs
    /\ injectOut = Absent

TokenNext ==
    \/ get_access_token
    \/ oauth_pre_call_hook
    \/ RotateToken
    \/ TokenTick

SpecToken == TokenInit /\ [][TokenNext]_vars

\* ---------------------------------------- the non-streaming relay: actions

\* a credentials document whose accessToken ends with a line break
CredsNewline == CredsDoc("ok", TRUE, OAuthObj("tokN\n", "userN", "acctN"), NoFields)

\* a header value that is not a legal field value: the HTTP library refuses
\* to put it on the wire
IllegalFieldValue(value) == \E i \in 1..Len(value) : value[i] \in { "tokN\n" }

IllegalHeaders(headers) == { k \in DOMAIN headers : IllegalFieldValue(headers[k]) }

\* str(e) of the exceptions the try block can catch
JsonDecodeText == << "Expecting value: line 1 column 1 (char 0)" >>

ConnectText == << "All connection attempts failed" >>

ReadText == << "peer closed connection without sending complete message body" >>

\* LocalProtocolError: the exception text quotes the refused value
ProtocolText(value) == << "Illegal header value b'" >> \o value \o << "'" >>

\* response.text: the body decoded, undecodable bytes replaced
ResponseText(up) ==
    IF up.decodable THEN up.chunks
    ELSE [ i \in 1..Len(up.chunks) |-> "\\ufffd" ]

StatusErrorAs500(up) == Reply(500, "api_error", ResponseText(up))

\* JSONResponse(status_code=response.status_code,
\*              content={"error": {"message": response.text, "type": "api_error"}})
StatusError(up) == Reply(up.status, "api_error", ResponseText(up))

\* "message": str(e)
ExceptionMessage(text) == text

\* `except Exception as e` of the handler
InternalError(text) == Reply(500, "internal_error", ExceptionMessage(text))

\* client.post(api_url, json=body, headers=headers) and what the handler
\* returns for its outcome
PostOutcome(headers, up) ==
    IF IllegalHeaders(headers) # {}
    THEN InternalError(ProtocolText(headers[CHOOSE k \in IllegalHeaders(headers) : TRUE]))
    ELSE IF up.connect = "raises" THEN InternalError(ConnectText)
    ELSE IF up.ending = "raises" THEN InternalError(ReadText)
    ELSE IF StatusIsNot200(up.status) THEN StatusError(up)
    ELSE IF ~up.decodable THEN InternalError(JsonDecodeText)
    ELSE Reply(200, "message", up.chunks)

\* the reply of a handler that returned before the upstream call
EarlyReply(resp) ==
    IF resp.type = "internal_error" THEN InternalError(JsonDecodeText)
    ELSE Reply(resp.status, resp.type,
               << "OAuth token not available. Run account sync first." >>)

PostRequests ==
    { [ request_body |-> b, request_headers |-> h ] :
        b \in { BodyPlain, BodyZai, BodyCallerMetadata, Malformed },
        h \in { EmptyDict, HeadersFull } }

PostFrame ==
    UNCHANGED << impl, credVars, hookVars, routeVars, processVars, fingerprintVars,
                 registryVars, routingHookVars, preCallVars, streamVars, tokenVars >>

handle_messages_request_posting == HandleRequest(PostRequests)

\* `await client.post(...)` is entered: the one upstream call of the request
PostSend ==
    /\ pc = "upstream"
    /\ pc' = "posting"
    /\ post' = [ post EXCEPT !.calls = @ + 1 ]
    /\ UNCHANGED << request, locals, response >>
    /\ PostFrame

PostCompletesRetrying ==
    /\ pc = "posting"
    /\ LET r == PostOutcome(locals.headers, upstream)
       IN  IF r.status # 200 /\ post.calls < 2
           THEN pc' = "upstream" /\ UNCHANGED post
           ELSE pc' = "replied" /\ post' = [ post EXCEPT !.reply = r ]
    /\ UNCHANGED << request, locals, response >>
    /\ PostFrame

\* the call returns or raises, and the handler returns its JSONResponse
PostCompletes ==
    /\ pc = "posting"
    /\ pc' = "replied"
    /\ post' = [ post EXCEPT !.reply = PostOutcome(locals.headers, upstream) ]
    /\ UNCHANGED << request, locals, response >>
    /\ PostFrame

\* the JSONResponse of a handler that returned before the upstream call
ReturnEarly ==
    /\ pc = "responded"
    /\ pc' = "replied"
    /\ post' = [ post EXCEPT !.reply = EarlyReply(response) ]
    /\ UNCHANGED << request, locals, response >>
    /\ PostFrame

\* the reply has gone to the caller; the next request may arrive
Replied ==
    /\ pc = "replied"
    /\ pc' = "idle"
    /\ request' = NoRequest
    /\ locals' = NoLocals
    /\ response' = NoResponse
    /\ post' = NoPost
    /\ PostFrame

PostInit ==
    /\ impl = "callbacks"
    /\ HOOK_OAUTH_TOKEN = HookNone
    /\ HOOK_LAST_LOAD_TIME = 0
    /\ now = StartTime
    /\ credsFile \in { CredsB, CredsNewline, CredsMissing }
    /\ claudeJson = ClaudeJson("missing", None, None)
    /\ OAUTH_TOKEN_CACHE = None
    /\ OAUTH_USER_ID_CACHE = None
    /\ OAUTH_ACCOUNT_UUID_CACHE = None
    /\ OAUTH_CACHE_TIME = 0
    /\ lastCall = NoCall
    /\ everLoaded = FALSE
    /\ cacheFrom = [user_id |-> FALSE, account_uuid |-> FALSE]
    /\ RouteIdle
    /\ proxy_agent_registry = RegistryAB
    /\ ZAI_API_KEY \in { None, "zai-key" }
    /\ HandlerIdle
    /\ FingerprintIdle
    /\ RegistryIdle
    /\ RoutingHookIdle
    /\ PreCallIdle
    /\ upstream \in Upstreams
    /\ relay = NoRelay
    /\ delivered = << >>
    /\ PostIdle
    /\ TokenIdle

PostNext ==
    \/ handle_messages_request_posting
    \/ inject_metadata_user_id
    \/ PostSend
    \/ PostCompletes
    \/ ReturnEarly
    \/ Replied

SpecPost == PostInit /\ [][PostNext]_vars

\* ---------------------------------------------- normalization: specification

NormalizeInit ==
    /\ impl = "callbacks"
    /\ HOOK_OAUTH_TOKEN = HookNone
    /\ HOOK_LAST_LOAD_TIME = 0
    /\ now = StartTime
    /\ credsFile \in { CredsA, CredsB, CredsFlat }
    /\ claudeJson \in ClaudeJsonStates
    /\ OAUTH_TOKEN_CACHE = None
    /\ OAUTH_USER_ID_CACHE = None
    /\ OAUTH_ACCOUNT_UUID_CACHE = None
    /\ OAUTH_CACHE_TIME = 0
    /\ lastCall = NoCall
    /\ everLoaded = FALSE
    /\ cacheFrom = [user_id |-> FALSE, account_uuid |-> FALSE]
    /\ RouteIdle
    /\ proxy_agent_registry = RegistryAB
    /\ ZAI_API_KEY \in { None, "zai-key" }
    /\ HandlerIdle
    /\ SideIdle

NormalizeNext ==
    \/ handle_messages_request_normalizing
    \/ inject_metadata_user_id
    \/ Complete

SpecNormalize == NormalizeInit /\ [][NormalizeNext]_vars

\* ------------------------------------------------ credential cache: claims

\* a step that is one call on the credential cache
CallStep == lastCall'.seq # lastCall.seq

\* the cache of the module under check, before the step
TokenHeld ==
    IF impl = "callbacks" THEN OAUTH_TOKEN_CACHE # None ELSE ~HOOK_OAUTH_TOKEN.isNone

CacheAge ==
    now - (IF impl = "callbacks" THEN OAUTH_CACHE_TIME ELSE HOOK_LAST_LOAD_TIME)

HeldCred ==
    IF impl = "callbacks" THEN CachedCred
    ELSE Cred(HOOK_OAUTH_TOKEN.accessToken, None, None)

\* the token the backing documents hold at this moment, as the module reads it
SourceToken ==
    IF credsFile.status # "ok" THEN None
    ELSE IF impl = "callbacks"
         THEN IF claudeJson.status = "malformed" THEN None
              ELSE IF credsFile.hasOauth THEN credsFile.claudeAiOauth.accessToken
                   ELSE credsFile.top.accessToken
         ELSE IF credsFile.hasOauth THEN credsFile.claudeAiOauth.accessToken
              ELSE None

\* C1: a get(force=false) whose refresh from the backing documents fails while
\* a credential loaded earlier is still cached returns that cached credential.
C1_StaleCredentialOnFailure ==
    (lastCall.op = "get" /\ ~lastCall.force /\ lastCall.failed /\ lastCall.hadToken)
        => /\ lastCall.result.token # None
           /\ impl = "callbacks" => lastCall.result = CachedCred

C3_InvalidateThenGet ==
    [][ CallStep =>
          /\ lastCall'.op = "invalidate" => lastCall'.reads = 0
          /\ (lastCall'.op = "get" /\ lastCall.op = "invalidate")
                => lastCall'.reads = 1 /\ lastCall'.result.token = SourceToken ]_vars

\* a credential younger than the TTL was invalidated and the next get loaded one
C3_Witness ==
    /\ lastCall.op = "get" /\ ~lastCall.force /\ lastCall.reads = 1
    /\ lastCall.result.token # None
    /\ lastCall.prev.op = "invalidate"
    /\ lastCall.prev.hadToken /\ lastCall.prev.fresh

\* C4 (as claimed): get(force=true) always reads the documents, and when that
\* read yields no credential the next get(force=false) reads them again.
C4_ForceDiscardsCache ==
    lastCall.op = "get" =>
        /\ lastCall.force => lastCall.reads = 1
        /\ ( ~lastCall.force /\ lastCall.prev.op = "get"
             /\ lastCall.prev.force /\ lastCall.prev.failed )
              => lastCall.reads = 1

\* C4 (amended): get(force=true) always reads the documents but does not drop
\* the cache first: a read that yields a token replaces the cache, a read that
\* fails leaves the cache as it was, and the next get(force=false) issued
\* within the TTL is then served the credential cached before the forced call
\* without reading.
C4_ForceBypassesCache ==
    [][ (CallStep /\ lastCall'.op = "get") =>
          /\ lastCall'.force =>
                /\ lastCall'.reads = 1
                /\ impl = "callbacks" =>
                      IF SourceToken # None
                      THEN OAUTH_TOKEN_CACHE' = SourceToken /\ OAUTH_CACHE_TIME' = now
                      ELSE UNCHANGED << OAUTH_TOKEN_CACHE, OAUTH_USER_ID_CACHE,
                                        OAUTH_ACCOUNT_UUID_CACHE, OAUTH_CACHE_TIME >>
                /\ impl = "oauth_hook" =>
                      IF credsFile.status = "ok"
                      THEN HOOK_LAST_LOAD_TIME' = now
                      ELSE UNCHANGED << HOOK_OAUTH_TOKEN, HOOK_LAST_LOAD_TIME >>
          /\ ( ~lastCall'.force /\ lastCall.op = "get" /\ lastCall.force
               /\ lastCall.failed /\ TokenHeld /\ CacheAge < OAUTH_CACHE_TTL )
                => lastCall'.reads = 0 /\ lastCall'.result = HeldCred ]_vars

\* a forced read failed and the next get was served the earlier credential
C4_Witness ==
    /\ lastCall.op = "get" /\ ~lastCall.force /\ lastCall.reads = 0
    /\ lastCall.result.token # None
    /\ lastCall.prev.op = "get" /\ lastCall.prev.force /\ lastCall.prev.failed

\* C5: whenever a token is cached, the cached user id and account id were
\* written by the load that wrote the token, and every get returns no token or
\* a token with the user id and account id of one load.
C5_NeverTorn ==
    impl = "callbacks" =>
        /\ OAUTH_TOKEN_CACHE # None
              => /\ cacheFrom.user_id /\ cacheFrom.account_uuid
                 /\ OAUTH_USER_ID_CACHE # None
                 /\ OAUTH_ACCOUNT_UUID_CACHE # None
        /\ (lastCall.op = "get" /\ lastCall.result.token # None)
              => /\ lastCall.whole
                 /\ lastCall.result.user_id # None
                 /\ lastCall.result.account_uuid # None

\* a load after an invalidate replaced a credential cached by an earlier load
C5_Witness ==
    /\ impl = "callbacks"
    /\ lastCall.op = "get" /\ lastCall.reads = 1 /\ lastCall.everBefore
    /\ lastCall.prev.op = "invalidate" /\ lastCall.prev.hadToken
    /\ OAUTH_TOKEN_CACHE = "tokB" /\ OAUTH_USER_ID_CACHE = "userB"
    /\ OAUTH_ACCOUNT_UUID_CACHE = "acctB"

\* --------------------------------------------------------- routing: claims

\* determine_routing has returned
Resolved == routeOut # NoDecision

\* the prompt the request carries, as the resolver finds it
RoutePrompt == SystemPromptOf(routeIn.body)

\* the request carries a prompt whose fingerprint is a key of the registry
RouteHit ==
    /\ Truthy(RoutePrompt)
    /\ compute_agent_hash(RoutePrompt) \in DOMAIN routeIn.agent_registry

RouteEntry == routeIn.agent_registry[compute_agent_hash(RoutePrompt)]

\* the model field of the request as declared (the built-in one when absent)
DeclaredModel ==
    IF routeIn.body.model = None THEN "claude-sonnet-4-20250514" ELSE routeIn.body.model

KeyConfigured == routeIn.ZAI_API_KEY \notin {None, ""}

\* the models an alias table gives for a registry entry, with or without
\* its provider prefix
EntryModels(entry) ==
    { MODEL_ALIAS_MAP[a] : a \in {entry, Tail(entry)} \cap DOMAIN MODEL_ALIAS_MAP }
    \cup { ZAI_MODEL_MAP[a] : a \in {entry} \cap DOMAIN ZAI_MODEL_MAP }

C10_AlternateDowngrade ==
    (Resolved /\ RouteHit /\ StartsWithZai(RouteEntry) /\ ~KeyConfigured)
        => routeOut = [ api_base |-> "https://api.anthropic.com/v1/messages",
                        model |-> IF Tail(RouteEntry) \in DOMAIN MODEL_ALIAS_MAP
                                  THEN MODEL_ALIAS_MAP[Tail(RouteEntry)]
                                  ELSE DeclaredModel,
                        api_key |-> None ]

\* C11: with the alternate credential configured, an entry with the "zai-"
\* prefix that is in the alternate alias table resolves to the alternate
\* upstream, the table's model and that credential; a prefixed entry that is
\* not in the table gets the default decision (primary upstream, the
\* request's own model, no alternate credential).
C11_AlternateRoute ==
    (Resolved /\ RouteHit /\ StartsWithZai(RouteEntry) /\ KeyConfigured)
        => IF RouteEntry \in DOMAIN ZAI_MODEL_MAP
           THEN routeOut = [ api_base |-> "https://api.z.ai/api/anthropic",
                             model |-> ZAI_MODEL_MAP[RouteEntry],
                             api_key |-> routeIn.ZAI_API_KEY ]
           ELSE routeOut = [ api_base |-> "https://api.anthropic.com/v1/messages",
                             model |-> DeclaredModel,
                             api_key |-> None ]

C11_Witness ==
    /\ Resolved /\ RouteHit /\ KeyConfigured
    /\ RouteEntry = << "zai-", "haiku" >>
    /\ routeIn.body.model = "gpt-x"
    /\ routeOut.model = "anthropic/claude-3-5-haiku-20241022"
    /\ routeOut.api_key = "zai-key"

\* ----------------------------------------------------- fingerprint: claims

\* the fingerprint functions have been applied to a text
HashedText == hashOut.kind = "text"

\* C12: for every prompt text p, every marker form and every suffix s, the
\* fingerprint of p + marker + s equals the fingerprint of p, in the
\* generator's function and in the resolver's.
C12_VolatileSuffixInvariance ==
    HashedText =>
        /\ hashOut.utils_full = hashOut.utils_p
        /\ hashOut.callbacks_full = hashOut.callbacks_p

\* the text the description of C13 says is hashed
C13_Described(text) ==
    LET double == << "\n", "\n", "Notes:" >>
        single == << "\n", "Notes:" >>
        bare == << "Notes:" >>
        cut == IF Contains(text, double) THEN SplitFirst(text, double)
               ELSE IF Contains(text, single) THEN SplitFirst(text, single)
               ELSE IF Contains(text, bare) THEN SplitFirst(text, bare)
               ELSE text
    IN  Strip(cut)

\* C13: the fingerprint of a text is the digest of the text cut at the first
\* occurrence of the highest-precedence marker form present in it (once),
\* then trimmed of leading and trailing whitespace; the whole trimmed text
\* when no marker occurs.
C13_FingerprintDefinition ==
    HashedText =>
        LET full == hashIn.p \o hashIn.marker \o hashIn.s
        IN  /\ hashOut.utils_p = [sha256 |-> C13_Described(hashIn.p)]
            /\ hashOut.utils_full = [sha256 |-> C13_Described(full)]
            /\ hashOut.callbacks_p = [sha256 |-> C13_Described(hashIn.p)]
            /\ hashOut.callbacks_full = [sha256 |-> C13_Described(full)]

\* the texts of the text segments, in order, one space between neighbours
RECURSIVE C14_Text(_)
C14_Text(blocks) ==
    IF blocks = << >> THEN << >>
    ELSE IF blocks[1].type # "text" THEN C14_Text(Tail(blocks))
    ELSE IF \A i \in 2..Len(blocks) : blocks[i].type # "text" THEN blocks[1].text
    ELSE blocks[1].text \o << " " >> \o C14_Text(Tail(blocks))

\* C14: for a prompt that is a list of typed segments, the text that is
\* fingerprinted is the texts of the text segments, in order, joined by one
\* space; other segments add neither text nor separator. This holds of the
\* resolver's two extractors and of the routing hook's.
C14_SegmentsJoined ==
    hashOut.kind = "segments" =>
        /\ hashOut.callbacks = [sha256 |-> C14_Text(hashIn.blocks)]
        /\ hashOut.messages = C14_Text(hashIn.blocks)
        /\ hashOut.hook = [sha256 |-> Strip(C14_Text(hashIn.blocks))]

\* -------------------------------------------------- routing hook: claims

C15_SystemMessages == extract_system_messages(hookIn.data.messages)

C15_SecondText == ContentText(C15_SystemMessages[2].content)

C15_AgentPattern ==
    /\ Len(C15_SystemMessages) >= 2
    /\ \E i \in 1..Len(ContentText(C15_SystemMessages[1].content)) :
          ContentText(C15_SystemMessages[1].content)[i] \in ClaudeCodeBearing

C15_Fingerprint == utils_compute_agent_hash(C15_SecondText, TRUE)

\* the hook took the registered target of the second system message's text
C15_Routed ==
    /\ hookIn.call_type = "completion"
    /\ C15_AgentPattern
    /\ C15_SecondText # EmptyText
    /\ C15_Fingerprint \in DOMAIN AGENT_REGISTRY

C15_RoutedData ==
    [ hookIn.data EXCEPT
        !.model = Present(AGENT_REGISTRY[C15_Fingerprint]),
        !.metadata = [ kind |-> "dict",
                       agent_hash |-> Present(C15_Fingerprint),
                       routed_from |-> IF hookIn.data.model = Absent
                                       THEN Present(<< "unknown" >>)
                                       ELSE hookIn.data.model,
                       agent_routed |-> TRUE ] ]

RegistryCallStep(ops) == regCall'.seq # regCall.seq /\ regCall'.op \in ops

\* a routing decision is taken in this step
RouteRequestStep == routeOut' # routeOut

C17_Target(mapping, agent_hash) ==
    IF agent_hash \in DOMAIN mapping THEN Present(mapping[agent_hash]) ELSE Absent

\* C17: once reload_registry() has read a mapping from the changed store,
\* every later lookup returns that mapping's target and every later routing
\* decision is the one taken on that mapping, until the next reload.
C17_ReloadTakesEffect ==
    [][ lastReload # Absent =>
          /\ RegistryCallStep({ "get" }) =>
                /\ regCall'.result.kind = "target"
                /\ regCall'.result.target =
                      C17_Target(lastReload.value, regCall'.result.hash)
          /\ RouteRequestStep =>
                routeOut' = determine_routing(routeIn'.body, lastReload.value,
                                              routeIn'.ZAI_API_KEY) ]_vars

\* the part of C17 that the registry module's own lookups satisfy
C17_LookupsFollowReload ==
    [][ (lastReload # Absent /\ RegistryCallStep({ "get" })) =>
          /\ regCall'.result.kind = "target"
          /\ regCall'.result.target =
                C17_Target(lastReload.value, regCall'.result.hash) ]_vars

\* C18: once a load has completed, load_registry(), get_registry() and
\* get_model_for_hash() answer from the cached mapping without opening the
\* store, whatever the store holds by then; the first load of a mapping, of a
\* missing store or of a malformed one completes and fills the cache.
C18_LoadIdempotent ==
    [][ RegistryCallStep({ "load", "get" }) =>
          /\ REGISTRY_LOADED =>
                /\ regCall'.reads = 0
                /\ AGENT_REGISTRY' = AGENT_REGISTRY
                /\ REGISTRY_LOADED'
                /\ regCall'.op = "load" => regCall'.result = Mapping(AGENT_REGISTRY)
                /\ regCall'.op = "get" =>
                      regCall'.result.target =
                         C17_Target(AGENT_REGISTRY, regCall'.result.hash)
          /\ (/\ ~REGISTRY_LOADED
              /\ \/ registryFile.status \in { "missing", "malformed" }
                 \/ registryFile.status = "ok" /\ registryFile.kind = "object") =>
                /\ regCall'.reads = 1
                /\ REGISTRY_LOADED' ]_vars

\* a load answered from the cache although the store holds another mapping
C18_Witness ==
    /\ regCall.op = "load"
    /\ regCall.reads = 0
    /\ regCall.result = Mapping(MapOpus)
    /\ registryFile = StoreMappingsHaiku
    /\ lastReload = Absent

\* C19: load_registry() and reload_registry() return a mapping for every
\* state of the store, the empty mapping for a missing or malformed one, and
\* no registry call raises.
C19_NeverRaises ==
    [][ /\ RegistryCallStep({ "load", "reload" }) =>
              /\ regCall'.result.kind = "mapping"
              /\ (regCall'.reads = 1 /\ registryFile.status \in { "missing", "malformed" })
                    => regCall'.result.map = EmptyRegistry
        /\ RegistryCallStep({ "get" }) => regCall'.result.kind = "target" ]_vars

\* the shapes in the order of the description
C20_Detected(store) ==
    IF store.mappings # Absent THEN store.mappings.value
    ELSE IF store.agents # Absent
         THEN [ h \in { store.agents.value[i].hash : i \in 1..Len(store.agents.value) } |->
                  LET i == CHOOSE i \in 1..Len(store.agents.value) :
                              store.agents.value[i].hash = h
                  IN  IF store.agents.value[i].model = Absent THEN Sonnet
                      ELSE store.agents.value[i].model.value ]
    ELSE store.entries

\* C20: reading a store that holds an object, the loader takes "mappings" if
\* present, else {hash: model} of "agents" with "sonnet" for a record without
\* model, else the object itself.
C20_ShapeDetection ==
    [][ (/\ RegistryCallStep({ "load", "reload" })
         /\ regCall'.reads = 1
         /\ registryFile.status = "ok"
         /\ registryFile.kind = "object") =>
          regCall'.result = Mapping(C20_Detected(registryFile)) ]_vars

\* the part of C20 that the callbacks object's loader satisfies
C20_CallbacksLoaderDetects ==
    \A store \in RegistryStores :
        (store.status = "ok" /\ store.kind = "object") =>
            load_agent_registry(store) = Mapping(C20_Detected(store))

\* --------------------------------------------------------- handler: claims

\* the step in which the handler takes up a request
RequestStep == pc = "idle" /\ pc' # "idle"

\* the request taken up parses and is routed to the primary provider
PrimaryRequest(r) ==
    /\ r.request_body.kind = "json"
    /\ determine_routing(r.request_body.obj, proxy_agent_registry,
                         ZAI_API_KEY).api_key = None

\* what the credential cache returns when asked in the current state
CacheAnswer == CallOutcome(FALSE).result

\* C6: on the primary-provider path, when the credential cache yields no
\* token, the handler answers 401 / authentication_error and makes no
\* upstream call.
C6_AuthenticationUnavailable ==
    [][ /\ (RequestStep /\ PrimaryRequest(request') /\ CacheAnswer.token = None)
            => /\ pc' = "responded"
               /\ response' = [ status |-> 401, type |-> "authentication_error",
                                upstream |-> Absent ]
        /\ (pc = "responded")
            => (pc' \in {"responded", "idle"} /\ response.upstream = Absent)
      ]_vars

C6_Witness ==
    /\ pc = "responded"
    /\ response.status = 401
    /\ response.type = "authentication_error"
    /\ request.request_headers = HeadersFull
    /\ OAUTH_TOKEN_CACHE = None

\* the values of the caller's authorization and x-api-key headers
CallerSecrets(r) ==
    { r.request_headers[k] :
        k \in {"authorization", "x-api-key"} \cap DOMAIN r.request_headers }

\* C7: on the primary-provider path the outbound authorization header is
\* "Bearer " plus the token the credential cache returned, and no value of
\* the caller's authorization or x-api-key header is among the outbound
\* headers, whatever headers the caller sent.
C7_AuthorizationSubstitution ==
    [][ /\ (RequestStep /\ PrimaryRequest(request') /\ pc' \in {"metadata", "upstream"})
            => /\ locals'.headers["authorization"] = << "Bearer ", CacheAnswer.token >>
               /\ CacheAnswer.token # None
        /\ (pc' = "upstream" /\ pc # "upstream" /\ PrimaryRequest(request'))
            => /\ response'.upstream.headers = locals'.headers
               /\ pc = "metadata" => locals'.headers = locals.headers
               /\ \A h \in DOMAIN response'.upstream.headers :
                     response'.upstream.headers[h] \notin CallerSecrets(request')
      ]_vars

C7_Witness ==
    /\ pc = "upstream"
    /\ request.request_headers = HeadersFull
    /\ request.request_body = BodyPlain
    /\ response.upstream.headers["authorization"] = << "Bearer ", "tokB" >>
    /\ "user-agent" \in DOMAIN response.upstream.headers

\* the request taken up has two system messages, the first with the client
\* marker, and the registry maps the fingerprint of the second to "sonnet"
C16_Scenario ==
    /\ request.request_body = BodyAgentPattern
    /\ LET system_messages ==
              SelectSeq(request.request_body.obj.messages,
                        LAMBDA m : m.role = "system")
       IN  /\ Len(system_messages) = 2
           /\ system_messages[1].content = Str(<< "Claude Code" >>)
           /\ Sha256Hex16(system_messages[2].content.text) \in DOMAIN proxy_agent_registry
           /\ proxy_agent_registry[Sha256Hex16(system_messages[2].content.text)]
                 = << "son", "net" >>

\* C16: for that request, with a credential cached, the outbound request goes
\* to the primary provider, its model is the alias table's model for
\* "sonnet" (the caller's "gpt-x" is gone) and its Authorization is the
\* cached credential.
C16_EndToEnd ==
    (C16_Scenario /\ pc = "upstream") =>
        /\ response.upstream.url = << "https://api.anthropic.com/v1/messages" >>
        /\ response.upstream.body.model = "claude-sonnet-4-20250514"
        /\ response.upstream.headers["authorization"][1] = "Bearer "
        /\ response.upstream.headers["authorization"][2] # None

\* what the handler does send for that request
C16_CallerModelKept ==
    (C16_Scenario /\ pc = "upstream") =>
        /\ response.upstream.url = << "https://api.anthropic.com/v1/messages" >>
        /\ response.upstream.body.model = "gpt-x"
        /\ response.upstream.headers["authorization"][1] = "Bearer "
        /\ response.upstream.headers["authorization"][2] # None

\* ---------------------------------------------- normalization: claims

\* the outbound request of a primary-path call has been issued
PrimarySent ==
    /\ pc = "upstream"
    /\ request.request_body.kind = "json"
    /\ PrimaryRequest(request)

\* the comma-separated tokens of a header value
Tokens(value) == { value[i] : i \in 1..Len(value) } \ { "," }

CallerBeta == DictGet(request.request_headers, "anthropic-beta", << >>)

\* C21: the anthropic-beta header of a primary-path outbound request has
\* oauth-2025-04-20 among its tokens, whatever the caller sent, and a caller
\* value that already has the token goes out as it came.
C21_BetaHeaderComplete ==
    PrimarySent =>
        /\ "anthropic-beta" \in DOMAIN response.upstream.headers
        /\ "oauth-2025-04-20" \in Tokens(response.upstream.headers["anthropic-beta"])
        /\ "oauth-2025-04-20" \in Tokens(CallerBeta) =>
              response.upstream.headers["anthropic-beta"] = CallerBeta

\* the part of C21 that holds: callers whose tokens are oauth-2025-04-20 or
\* do not hold that text
C21_BetaHeaderCompleteTokenwise ==
    (PrimarySent /\ "x-oauth-2025-04-20-preview" \notin Tokens(CallerBeta)) =>
        /\ "anthropic-beta" \in DOMAIN response.upstream.headers
        /\ "oauth-2025-04-20" \in Tokens(response.upstream.headers["anthropic-beta"])
        /\ "oauth-2025-04-20" \in Tokens(CallerBeta) =>
              response.upstream.headers["anthropic-beta"] = CallerBeta

SystemIn == request.request_body.obj.system

SystemOut == response.upstream.body.system

\* the value begins with the canonical sentence: a string that starts with
\* it, or a segment list whose first segment's text starts with it
BeginsWithSentence(v) ==
    \/ /\ v.kind = "str"
       /\ v.text # << >>
       /\ v.text[1] = "You are Claude Code, Anthropic's official CLI for Claude."
    \/ /\ v.kind = "list"
       /\ v.blocks # << >>
       /\ v.blocks[1].text # << >>
       /\ v.blocks[1].text[1] = "You are Claude Code, Anthropic's official CLI for Claude."

\* the existing content, as the segments that follow the synthetic one
ExistingSegments(v) ==
    CASE v.kind = "str" /\ v.text # << >> -> << [type |-> "text", text |-> v.text] >>
      [] v.kind = "list" -> v.blocks
      [] OTHER -> << >>

SyntheticSegment ==
    [ type |-> "text",
      text |-> << "You are Claude Code, Anthropic's official CLI for Claude." >>,
      cache_control |-> "ephemeral" ]

C22_WitnessUnchanged ==
    /\ PrimarySent
    /\ SystemIn.kind = "list"
    /\ BeginsWithSentence(SystemIn)
    /\ SystemOut = SystemIn

\* the reference client signature
ReferenceSignature ==
    ("user-agent" :> << "claude-cli/", "2.1.5", " (external, cli)" >>)
    @@ ("x-app" :> << "cli" >>)
    @@ ("anthropic-dangerous-direct-browser-access" :> << "true" >>)
    @@ ("x-stainless-arch" :> << "x86_64" >>)
    @@ ("x-stainless-os" :> << "linux" >>)
    @@ ("x-stainless-runtime" :> << "node" >>)
    @@ ("x-stainless-package-version" :> << "2.1.5" >>)
    @@ ("x-stainless-retry-count" :> << "0" >>)

\* C23: every identifying header of the reference client signature is among
\* the outbound headers of a primary-path request with its reference value,
\* and the beta-features header is there, whatever the caller sent.
C23_SignatureHeaders ==
    PrimarySent =>
        /\ \A h \in DOMAIN ReferenceSignature :
              /\ h \in DOMAIN response.upstream.headers
              /\ response.upstream.headers[h] = ReferenceSignature[h]
        /\ "anthropic-beta" \in DOMAIN response.upstream.headers

\* what the handler does instead: an identifying header goes out exactly
\* when the caller sent it, with the caller's value
C23_HandlerForwardsCallerValues ==
    PrimarySent =>
        \A h \in DOMAIN ReferenceSignature :
            IF h \in DOMAIN request.request_headers
            THEN /\ h \in DOMAIN response.upstream.headers
                 /\ response.upstream.headers[h] = request.request_headers[h]
            ELSE h \notin DOMAIN response.upstream.headers

\* the pre-call hook injected the credential
PreCallInjected == preCallOut.kind = "data" /\ preCallOut.data.api_key # None

\* the part of C23 that the pre-call hook satisfies
C23_HookWritesSignature ==
    PreCallInjected =>
        \A h \in DOMAIN ReferenceSignature :
            /\ h \in DOMAIN preCallOut.data.extra_headers
            /\ preCallOut.data.extra_headers[h] = ReferenceSignature[h]

CallerUserId(metadata) == IF metadata = Absent THEN Absent ELSE metadata.user_id

\* C24: after the pre-call hook's injection metadata.user_id is present; a
\* value the caller had set is still there, and otherwise it is composed
\* from the cached credential's identifiers and the session token.
C24_MetadataIdentity ==
    PreCallInjected =>
        /\ preCallOut.data.metadata # Absent
        /\ preCallOut.data.metadata.user_id # Absent
        /\ IF CallerUserId(preCallIn.metadata) # Absent
           THEN preCallOut.data.metadata.user_id = CallerUserId(preCallIn.metadata)
           ELSE preCallOut.data.metadata.user_id =
                   Present(<< "user_", OAUTH_USER_ID_CACHE, "_account_",
                              OAUTH_ACCOUNT_UUID_CACHE, "_session_", "session8" >>)

\* the part of C24 that the handler satisfies
C24_HandlerKeepsCallerIdentity ==
    PrimarySent =>
        /\ response.upstream.body.metadata # Absent
        /\ response.upstream.body.metadata.user_id # Absent
        /\ CallerUserId(request.request_body.obj.metadata) # Absent =>
              response.upstream.body.metadata.user_id =
                 CallerUserId(request.request_body.obj.metadata)
        /\ CallerUserId(request.request_body.obj.metadata) = Absent =>
              \E u \in { "anonymous", "userB", "userF", "userJ" },
                 a \in { "default", "acctB", "acctJ" } :
                 response.upstream.body.metadata.user_id =
                    Present(<< "user_", u, "_account_", a, "_session_", "session8" >>)

\* the request taken up parses and is routed to the alternate provider
AlternateRequest(r) ==
    /\ r.request_body.kind = "json"
    /\ determine_routing(r.request_body.obj, proxy_agent_registry,
                         ZAI_API_KEY).api_key # None

\* C25: on the alternate-provider path the outbound body is the inbound body
\* with only the model replaced, the credential cache is neither read nor
\* written, and the outbound headers are exactly x-api-key (the provider
\* key), anthropic-version and Content-Type.
C25_AlternatePathUntouched ==
    [][ (RequestStep /\ AlternateRequest(request')) =>
          /\ pc' = "upstream"
          /\ response'.upstream.body =
                [ request'.request_body.obj EXCEPT
                    !.model = "anthropic/claude-3-5-haiku-20241022" ]
          /\ response'.upstream.headers =
                ("x-api-key" :> << "zai-key" >>)
                @@ ("anthropic-version" :> << "2023-06-01" >>)
                @@ ("Content-Type" :> << "application/json" >>)
          /\ "authorization" \notin DOMAIN response'.upstream.headers
          /\ response'.upstream.url =
                << "https://api.z.ai/api/anthropic", "/v1/messages" >>
          /\ UNCHANGED << OAUTH_TOKEN_CACHE, OAUTH_USER_ID_CACHE,
                          OAUTH_ACCOUNT_UUID_CACHE, OAUTH_CACHE_TIME >>
      ]_vars

\* an alternate-path request went out with its temperature and the caller's
\* metadata while the credential cache had never been filled
C25_Witness ==
    /\ pc = "upstream"
    /\ AlternateRequest(request)
    /\ response.upstream.body.temperature = Present(<< "0.7" >>)
    /\ response.upstream.body.metadata = CallerMetadata
    /\ response.upstream.body.tools = Absent
    /\ OAUTH_TOKEN_CACHE = None
    /\ credsFile = CredsB

\* ------------------------------------------------------- relay: claims

\* the relay ran to its end without the consumer cancelling it
RelayEnded == relay.pc = "done" /\ ~relay.cancelled

\* the upstream's chunks as the items of a stream
Chunks(cs) == [ i \in 1..Len(cs) |-> Chunk(cs[i]) ]

ErrorEvents == { i \in 1..Len(delivered) : delivered[i].kind = "error" }

\* C26: when the upstream's initial response to a streaming call is non-2xx
\* (and its body is read without a transport exception), the stream
\* delivered is exactly one error event carrying the upstream status and
\* body, and no data chunk.
C26_StatusErrorEvent ==
    (/\ RelayEnded
     /\ upstream.connect = "ok"
     /\ StatusIsNot2xx(upstream.status)
     /\ upstream.ending = "closed")
    => delivered = << StatusErrorEvent(upstream.status, upstream.chunks) >>

\* what holds of a non-2xx response whatever its body: one error event, no chunk
C26_Containment ==
    (RelayEnded /\ upstream.connect = "ok" /\ StatusIsNot2xx(upstream.status))
    => /\ Len(delivered) = 1
       /\ delivered[1].kind = "error"
       /\ upstream.decodable /\ upstream.ending = "closed" =>
             delivered = << StatusErrorEvent(upstream.status, upstream.chunks) >>

\* C27: when the upstream's initial response is a success (2xx) and the
\* upstream closes the stream, the stream delivered is exactly the sequence of
\* upstream chunks, in order.
C27_PassThrough ==
    (/\ RelayEnded
     /\ upstream.connect = "ok"
     /\ ~StatusIsNot2xx(upstream.status)
     /\ upstream.ending = "closed")
    => delivered = Chunks(upstream.chunks)

\* what holds of status 200: the items delivered are at every moment the
\* chunks read so far, and all of them when the relay has ended
C27_PassThrough200 ==
    (upstream.connect = "ok" /\ upstream.status = 200 /\ upstream.ending = "closed")
    => /\ delivered = SubSeq(Chunks(upstream.chunks), 1, relay.read)
       /\ RelayEnded => delivered = Chunks(upstream.chunks)

\* a transport exception happens in this run if the relay gets to it
TransportException ==
    \/ upstream.connect = "raises"
    \/ upstream.connect = "ok" /\ upstream.ending = "raises"

\* C28: a stream carries at most one error event, an error event is the last
\* item of the stream, and a relay that ended on a transport exception
\* (connecting, reading the error body, or after the chunks it relayed)
\* delivered exactly one.
C28_OneTerminalErrorEvent ==
    /\ Cardinality(ErrorEvents) <= 1
    /\ ErrorEvents \subseteq { Len(delivered) }
    /\ (RelayEnded /\ TransportException) =>
          /\ Cardinality(ErrorEvents) = 1
          /\ delivered[Len(delivered)].type = "streaming_error"
          /\ upstream.connect = "ok" /\ upstream.status = 200 =>
                SubSeq(delivered, 1, Len(delivered) - 1) = Chunks(upstream.chunks)

\* a relay that failed mid-stream after relaying a chunk
C28_Witness ==
    /\ relay.pc = "done"
    /\ upstream.status = 200
    /\ upstream.ending = "raises"
    /\ delivered = << Chunk("c1"), StreamingErrorEvent >>

\* a relay that failed while connecting
C28_WitnessConnect ==
    /\ relay.pc = "done"
    /\ upstream.connect = "raises"
    /\ delivered = << StreamingErrorEvent >>

\* a relay that failed while reading the error body
C28_WitnessErrorBody ==
    /\ relay.pc = "done"
    /\ upstream.status = 500
    /\ upstream.ending = "raises"
    /\ delivered = << StreamingErrorEvent >>

C29_WitnessNormal ==
    /\ RelayEnded
    /\ upstream.status = 200
    /\ delivered = Chunks(<< "c1", "c2" >>)
    /\ relay.response = "closed"
    /\ relay.client = "closed"

C29_WitnessStatusError ==
    /\ RelayEnded
    /\ delivered = << StatusErrorEvent(500, << "c1" >>) >>
    /\ relay.response = "closed"
    /\ relay.client = "closed"

C29_WitnessConnectFailed ==
    /\ RelayEnded
    /\ upstream.connect = "raises"
    /\ relay.response = "none"
    /\ relay.client = "closed"

NoUserAnywhere ==
    /\ claudeJson.status = "missing" \/ claudeJson.userID = None
    /\ credsFile.claudeAiOauth.userId = None
    /\ credsFile.top.userId = None

\* neither backing document holds an account identifier
NoAccountAnywhere ==
    /\ claudeJson.status = "missing" \/ claudeJson.accountUuid = None
    /\ credsFile.claudeAiOauth.accountUuid = None
    /\ credsFile.top.accountUuid = None

C35_ImplementationsAgree ==
    HashedText =>
        /\ hashOut.utils_p = hashOut.callbacks_p
        /\ hashOut.utils_full = hashOut.callbacks_full

\* where the two do agree: texts with no whitespace at either end and no marker
C35_AgreeOnPlainText ==
    (HashedText /\ Strip(hashIn.p) = hashIn.p /\ ~Contains(hashIn.p, << NotesMarker >>))
        => hashOut.utils_p = hashOut.callbacks_p

\* the second credential lookup of a request and the POST that follows it
SecondLookup == pc = "metadata" /\ pc' = "upstream"

\* C36: within one primary-path request the user and account identifiers
\* written into metadata.user_id are those of the load that gave the bearer
\* token of the Authorization header, whatever happens to the clock and to
\* the backing documents between the handler's two lookups.
C36_SameCredential ==
    [][ SecondLookup =>
          /\ locals.oauth_token = OAUTH_TOKEN_CACHE
          /\ response'.upstream.headers["authorization"] =
                << "Bearer ", OAUTH_TOKEN_CACHE >>
          /\ response'.upstream.body.metadata.user_id =
                Present(<< "user_", OAUTH_USER_ID_CACHE, "_account_",
                           OAUTH_ACCOUNT_UUID_CACHE, "_session_", "session8" >>)
      ]_vars

\* what holds instead: the token is the first lookup's, and the identity is
\* the first lookup's as long as the cache is younger than the TTL at the
\* second lookup
C36_SameCredentialWithinTTL ==
    [][ SecondLookup =>
          /\ locals.oauth_token = OAUTH_TOKEN_CACHE
          /\ response'.upstream.headers["authorization"] =
                << "Bearer ", OAUTH_TOKEN_CACHE >>
          /\ now - OAUTH_CACHE_TIME < OAUTH_CACHE_TTL =>
                response'.upstream.body.metadata.user_id =
                   Present(<< "user_", OAUTH_USER_ID_CACHE, "_account_",
                              OAUTH_ACCOUNT_UUID_CACHE, "_session_", "session8" >>)
      ]_vars

\* --------------------------------------------- decision consistency: claims

\* C37: determine_routing returns the alternate upstream base URL exactly
\* when it returns a non-empty alternate API key, and then the model is a
\* value of the alternate alias table; otherwise the base URL is the primary
\* upstream, the key is absent, and the model is the request's original model
\* or a value of the primary alias table.
C37_DecisionConsistent ==
    Resolved =>
        /\ routeOut.api_base = "https://api.z.ai/api/anthropic"
              <=> routeOut.api_key \notin { None, "" }
        /\ IF routeOut.api_key \notin { None, "" }
           THEN /\ routeOut.api_key = routeIn.ZAI_API_KEY
                /\ routeOut.model \in { "anthropic/claude-3-5-haiku-20241022",
                                        "anthropic/claude-sonnet-4-20250514",
                                        "anthropic/claude-opus-4-5-20251101" }
           ELSE /\ routeOut.api_base = "https://api.anthropic.com/v1/messages"
                /\ routeOut.api_key = None
                /\ routeOut.model \in { DeclaredModel, "claude-3-5-haiku-20241022",
                                        "claude-sonnet-4-20250514",
                                        "claude-opus-4-5-20251101" }

\* an alternate decision
C37_Witness ==
    /\ Resolved
    /\ routeIn.body.model = "claude-opus-4-5-20251101"
    /\ routeOut.api_base = "https://api.z.ai/api/anthropic"
    /\ routeOut.model = "anthropic/claude-sonnet-4-20250514"
    /\ routeOut.api_key = "zai-key"

\* a prefixed entry resolved without the alternate credential
C37_WitnessFallback ==
    /\ Resolved /\ RouteHit
    /\ RouteEntry = << "zai-", "haiku" >>
    /\ routeIn.ZAI_API_KEY = ""
    /\ routeOut.api_base = "https://api.anthropic.com/v1/messages"
    /\ routeOut.model = "claude-3-5-haiku-20241022"
    /\ routeOut.api_key = None



\* ---------------------------------------------------- token expiry: claims

\* expiresAt read as milliseconds: above 1e12
InMilliseconds(e) ==
    \/ e.thousands > MillisecondsThreshold
    \/ e.thousands = MillisecondsThreshold /\ e.units > 0

\* t <= expiresAt - 300 s, on whole seconds t, without multiplying out
WithinLifetime(e, t) ==
    LET n == t + BufferSeconds
    IN  IF InMilliseconds(e)
        THEN n <= e.thousands
        ELSE \/ n \div 1000 < e.thousands
             \/ n \div 1000 = e.thousands /\ n % 1000 <= e.units

\* what one call of get_access_token may have returned
ValidAccess(a) ==
    /\ a.token # None =>
          /\ ~a.from.isNone
          /\ a.token = a.from.accessToken
          /\ WithinLifetime(a.from.expiresAt, a.at)
    /\ a.reloads \in { 0, 1 }
    /\ a.reloads = 1 <=> ( ~a.first.isNone /\ ~WithinLifetime(a.first.expiresAt, a.at) )
    /\ ( a.reloads = 1 /\ ( a.from.isNone \/ ~WithinLifetime(a.from.expiresAt, a.at) ) )
          => a.token = None

\* the hook returns
HookReturns == injectOut = Absent /\ injectOut' # Absent

\* the request is one the hook asks a token for
AsksToken ==
    /\ injectIn.call_type = "completion"
    /\ \E i \in 1..Len(injectIn.data.model) :
          injectIn.data.model[i] \in { "claude-sonnet-4-20250514", "CLAUDE-X" }

\* C38: get_access_token returns a token only if, at that call, now <=
\* expiresAt - 300 s of the token object it took it from (milliseconds when
\* above 1e12, else seconds); it force-reloads exactly when the first token is
\* expired, at most once, and returns nothing when the reloaded token is
\* absent or still expired; the hook then returns the request data as it
\* received it, and a header it injects carries a token within its lifetime.
C38_NeverExpiredToken ==
    /\ [] ValidAccess(accessOut)
    /\ [][ HookReturns =>
            IF AsksToken /\ accessOut'.token # None
            THEN /\ accessOut'.at = now
                 /\ injectOut'.value.extra_headers.value["Authorization"]
                       = << "Bearer ", accessOut'.token >>
            ELSE injectOut'.value = injectIn.data ]_vars

\* a cached token has expired, the reload is still expired, and the hook
\* has left the data alone
C38_Witness ==
    /\ injectOut = Present(injectIn.data)
    /\ AsksToken
    /\ accessOut.reloads = 1
    /\ ~accessOut.from.isNone
    /\ accessOut.token = None
    /\ accessOut.at > TokenStartTime
    /\ tokenCache.time = now

\* a cached token has expired and the reload gives a fresh one
C38_WitnessReloaded ==
    /\ accessOut.reloads = 1
    /\ accessOut.token = "tokB"
    /\ accessOut.first.accessToken = "tokA"
    /\ accessOut.at > TokenStartTime

\* a token on the edge of the buffer is returned and injected
C38_WitnessEdge ==
    /\ injectOut # Absent
    /\ accessOut.token # None
    /\ accessOut.from.expiresAt = Seconds(TokenStartTime + BufferSeconds)
    /\ injectOut.value.extra_headers # Absent
    /\ "Authorization" \in DOMAIN injectOut.value.extra_headers.value

\* ------------------------------------------------ non-streaming relay: claims

\* the reply of the request has been built
PostReplied == pc = "replied"

\* the upstream call was made and its response, body included, was received
ResponseReceived ==
    /\ PostReplied
    /\ post.calls = 1
    /\ IllegalHeaders(locals.headers) = {}
    /\ upstream.connect = "ok"
    /\ upstream.ending = "closed"

\* C31: every upstream response with a non-2xx status is returned to the
\* caller as a structured error (type api_error) whose status code is the
\* upstream's status code and whose message is the upstream's body text.
C31_StatusErrorRelayed ==
    ( ResponseReceived /\ StatusIsNot2xx(upstream.status) ) =>
        /\ post.reply.status = upstream.status
        /\ post.reply.type = "api_error"
        /\ upstream.decodable => post.reply.message = upstream.chunks

C31_Witness ==
    /\ ResponseReceived
    /\ upstream.status = 404
    /\ upstream.decodable
    /\ Len(upstream.chunks) = MaxChunks
    /\ post.reply = Reply(404, "api_error", upstream.chunks)

C31_WitnessOAuth500 ==
    /\ ResponseReceived
    /\ upstream.status = 500
    /\ locals.oauth_token = "tokB"
    /\ post.reply.status = 500

\* C32: for each inbound request the core issues at most one upstream call,
\* whatever the outcome; a reply that relays an upstream response was
\* preceded by exactly one call.
C32_AtMostOneCall ==
    /\ post.calls <= 1
    /\ ( PostReplied /\ post.reply.type \in { "api_error", "message" } ) => post.calls = 1
    /\ pc = "posting" => post.calls = 1

\* the call failed and the reply was built without a second call
C32_Witness ==
    /\ PostReplied
    /\ post.calls = 1
    /\ upstream.connect = "raises"
    /\ post.reply.status = 500

C32_WitnessStatus ==
    /\ PostReplied
    /\ post.calls = 1
    /\ upstream.connect = "ok"
    /\ upstream.status = 500
    /\ post.reply.type = "api_error"

\* the streaming relay: the request is sent once, when the generator starts
C32_StreamSendsOnce ==
    [][ /\ relay'.pc = "sending" => relay.pc = "start"
        /\ relay.pc # "start" => relay'.pc # "start" ]_vars

\* the credential and the secret-bearing header values of the request
SecretAtoms ==
    ( { OAuthData(credsFile).accessToken, OAUTH_TOKEN_CACHE, ZAI_API_KEY,
        locals.oauth_token } \ { None } )
    \cup { CallerToken[i] : i \in 2..Len(CallerToken) }
    \cup { CallerKey[i] : i \in 1..Len(CallerKey) }

\* an exception was raised inside the try block
RaisedInside ==
    \/ request.request_body = Malformed
    \/ /\ post.calls = 1
       /\ \/ IllegalHeaders(locals.headers) # {}
          \/ upstream.connect = "raises"
          \/ upstream.ending = "raises"
          \/ upstream.status = 200 /\ ~upstream.decodable

ContainedAs500 ==
    ( PostReplied /\ RaisedInside ) =>
        /\ post.reply.status = 500
        /\ post.reply.type = "internal_error"
        /\ request.request_body = Malformed => post.calls = 0

\* C33: a malformed inbound body, or any other exception raised inside the
\* handler, yields a response of status 500 and type internal_error, with
\* no upstream call for a body that does not parse, and the response
\* message carries no credential token or secret-bearing header value.
C33_SafeInternalError ==
    /\ ContainedAs500
    /\ ( PostReplied /\ post.reply.type = "internal_error" ) =>
          \A i \in 1..Len(post.reply.message) : post.reply.message[i] \notin SecretAtoms

\* the same, for requests whose outbound header values are all legal
C33_SafeWhenHeadersLegal ==
    /\ ContainedAs500
    /\ ( /\ PostReplied
         /\ post.reply.type = "internal_error"
         /\ IllegalHeaders(locals.headers) = {} ) =>
          \A i \in 1..Len(post.reply.message) : post.reply.message[i] \notin SecretAtoms

====
